---- MODULE Spec2Model ----
(***************************************************************************)
(* Forecast synthesis engine of the forecasting bot: text extraction,      *)
(* per-question-type distribution synthesis, cross-run aggregation, the    *)
(* forecaster facade and the shared admission gate.                        *)
(*                                                                         *)
(* Python floats are modelled as exact rationals <<n, d>> (d > 0, lowest   *)
(* terms): every arithmetic step of the source is carried out exactly, so  *)
(* IEEE rounding error is outside the model.                               *)
(***************************************************************************)
EXTENDS Integers, Sequences, FiniteSets, TLC

(***************************************************************************)
(* Exact rational arithmetic (the model of Python's float).                *)
(***************************************************************************)
Abs(x) == IF x < 0 THEN -x ELSE x

RECURSIVE GCD(_, _)
GCD(a, b) == IF b = 0 THEN a ELSE GCD(b, a % b)

RNorm(n, d) ==
    LET s == IF d < 0 THEN -1 ELSE 1
        g == GCD(Abs(n), Abs(d))
    IN  IF n = 0 THEN <<0, 1>> ELSE <<(s * n) \div g, (s * d) \div g>>

R(i) == <<i, 1>>
Frac(n, d) == RNorm(n, d)
RAdd(a, b) ==
    LET g == GCD(a[2], b[2])
    IN  RNorm(a[1] * (b[2] \div g) + b[1] * (a[2] \div g), (a[2] \div g) * b[2])
RNeg(a) == <<-a[1], a[2]>>
RAbs(a) == IF a[1] < 0 THEN RNeg(a) ELSE a
RSub(a, b) == RAdd(a, RNeg(b))
RMul(a, b) ==
    LET g1 == GCD(Abs(a[1]), b[2])
        g2 == GCD(Abs(b[1]), a[2])
    IN  IF a[1] = 0 \/ b[1] = 0 THEN <<0, 1>>
        ELSE <<(a[1] \div g1) * (b[1] \div g2), (a[2] \div g2) * (b[2] \div g1)>>
RInv(a) == IF a[1] < 0 THEN <<-a[2], -a[1]>> ELSE <<a[2], a[1]>>
RDiv(a, b) == RMul(a, RInv(b))
RLe(a, b) ==
    LET g == GCD(a[2], b[2]) IN a[1] * (b[2] \div g) <= b[1] * (a[2] \div g)
RLt(a, b) ==
    LET g == GCD(a[2], b[2]) IN a[1] * (b[2] \div g) < b[1] * (a[2] \div g)
RMin(a, b) == IF RLe(a, b) THEN a ELSE b
RMax(a, b) == IF RLe(a, b) THEN b ELSE a
RIsZero(a) == a[1] = 0

\* Python's sum() over a list of numbers.
RECURSIVE RSum(_)
RSum(s) == IF s = <<>> THEN R(0) ELSE RAdd(RSum(SubSeq(s, 1, Len(s) - 1)), s[Len(s)])

\* int() of a non-negative number: truncation towards zero.
RTrunc(a) == a[1] \div a[2]

SeqMap(Op(_), s) == [i \in 1..Len(s) |-> Op(s[i])]

(***************************************************************************)
(* State.  Each specification below drives one part of the engine and      *)
(* leaves the variables of the other parts at their idle values.           *)
(***************************************************************************)
VARIABLES
    \* multiple-choice synthesis (forecasting/multiple_choice.py)
    options,                      \* option labels of the question, in order
    option_probabilities,         \* raw scores handed to the synthesizer
    probability_yes_per_category, \* outcome of _generate_multiple_choice_forecast
    mc_pc,
    \* numeric / discrete synthesis (forecasting/numeric.py)
    question_details,             \* type, scaling and bound flags of the question
    num_runs,                     \* number of runs the forecast aggregates
    extracted,                    \* the map extract_percentiles returned for run 1
    adjusted_values,              \* that dict object after the loop of lines 216-221
    percentile_values,            \* that dict object, as the synthesizer leaves it
    cdfs,                         \* CDFs of the runs finished so far, in launch order
    median_cdf,                   \* outcome of NumericForecaster.forecast
    num_pc,
    \* extraction layer (utils/extractors.py)
    forecast_text,                \* the model's answer, a sequence of characters
    extraction,                   \* the extractor called on it and its outcome
    \* run aggregator (the tail of each forecast method)
    kind,                         \* question type being aggregated
    run_results,                  \* the runs' distributions, in launch order
    permutation,                  \* another order of the same run results
    aggregated,                   \* aggregate of run_results
    aggregated_permuted,          \* aggregate of the reordered run results
    \* bot facade and admission gate (main.py, utils/llm_client.py)
    use_local_llm_for_forecasting, \* ForecastingBot's constructor argument
    research_provider,            \* the provider the constructor selected
    submit_prediction,            \* bot_config.submit_prediction
    skip_previously_forecasted_questions,
    semaphore_value,              \* free permits of shared_rate_limiter.semaphore
    semaphore_waiters,            \* calls suspended in acquire, oldest first
    call_pc,                      \* where each task's current model call stands
    attempt,                      \* requests the current call has issued so far
    question_task,                \* position of each forecast_question task
    research_step,                \* research step (1..5) the question is in, else 0
    summary_report,               \* what conduct_research returned
    run_task,                     \* position of each _get_single_forecast task
    run_outcome,                  \* what each run task returned or raised
    gather_exception,             \* first exception set on the runs' gather
    out_of_order,                 \* history: a run returned before an earlier-launched one
    final_comment,                \* the comment forecast returned with its aggregate
    forecast,                     \* outcome of forecaster.forecast
    posted,                       \* what the question's submission left at Metaculus
    post_calls,                   \* the Metaculus write calls made for the question, in order
    my_forecasts,                 \* whether the fetched post carries a forecast of the bot
    forecast_summaries,           \* outcome of each forecast_question task
    printed,                      \* the summary forecast_questions printed
    batch,                        \* position of forecast_questions / asyncio.run
    \* the local client's retry loop (utils/llm_client.py)
    responses                     \* what _post did on each request of a call, in order

botVars == <<use_local_llm_for_forecasting, research_provider, submit_prediction,
             skip_previously_forecasted_questions, semaphore_value,
             semaphore_waiters, call_pc, attempt, question_task,
             research_step, summary_report, run_task, run_outcome,
             gather_exception, out_of_order, final_comment, forecast, posted,
             post_calls, my_forecasts, forecast_summaries, printed, batch>>

extVars == <<forecast_text, extraction>>
aggVars == <<kind, run_results, permutation, aggregated, aggregated_permuted>>
numVars == <<question_details, num_runs, extracted, adjusted_values, percentile_values,
             cdfs, median_cdf, num_pc>>
mcVars == <<options, option_probabilities, probability_yes_per_category, mc_pc>>
localVars == <<responses>>

NoValue == [status |-> "none"]
Raised(err) == [status |-> "raised", error |-> err]
Returned(v) == [status |-> "returned", value |-> v]
None == <<>>

\* The idle values of each part.
LocalIdle == responses = None

MCIdle ==
    /\ options = <<>>
    /\ option_probabilities = <<>>
    /\ probability_yes_per_category = NoValue
    /\ mc_pc = "idle"

ExtIdle ==
    /\ forecast_text = <<>>
    /\ extraction = [fn |-> "none"]

AggIdle ==
    /\ kind = "none"
    /\ run_results = <<>>
    /\ permutation = <<>>
    /\ aggregated = NoValue
    /\ aggregated_permuted = NoValue

NumIdle ==
    /\ question_details = None
    /\ num_runs = 0
    /\ extracted = None
    /\ adjusted_values = None
    /\ percentile_values = None
    /\ cdfs = <<>>
    /\ median_cdf = NoValue
    /\ num_pc = "idle"

BotIdle ==
    /\ use_local_llm_for_forecasting = FALSE
    /\ research_provider = "none"
    /\ submit_prediction = FALSE
    /\ skip_previously_forecasted_questions = FALSE
    /\ semaphore_value = 0
    /\ semaphore_waiters = <<>>
    /\ call_pc = <<>>
    /\ attempt = <<>>
    /\ question_task = <<>>
    /\ research_step = <<>>
    /\ summary_report = <<>>
    /\ run_task = <<>>
    /\ run_outcome = <<>>
    /\ gather_exception = <<>>
    /\ out_of_order = <<>>
    /\ final_comment = <<>>
    /\ forecast = <<>>
    /\ posted = <<>>
    /\ post_calls = <<>>
    /\ my_forecasts = <<>>
    /\ forecast_summaries = <<>>
    /\ printed = <<>>
    /\ batch = "idle"


(***************************************************************************)
(* Multiple-choice synthesis.                                              *)
(***************************************************************************)
MaxOptions == 3
LabelNames == <<"A", "B", "C", "D", "E">>
OptionLists == {SubSeq(LabelNames, 1, k) : k \in 2..MaxOptions}
ScoreValues == {-10, 0, 1, 10, 80, 998}
ScoreLists == UNION {[1..k -> {R(v) : v \in ScoreValues}] : k \in 1..MaxOptions}

ClampLow == Frac(1, 100)
ClampHigh == Frac(99, 100)

\* _normalize_list, steps 1-4 (float_list is never empty here).
_normalize_list(float_list) ==
    LET clamped_list == [i \in 1..Len(float_list) |->
                            RMax(RMin(float_list[i], ClampHigh), ClampLow)]
        total_sum == RSum(clamped_list)
        normalized_list == [i \in 1..Len(float_list) |-> RDiv(clamped_list[i], total_sum)]
        adjustment == RSub(R(1), RSum(normalized_list))
    IN  [normalized_list EXCEPT ![Len(float_list)] = RAdd(@, adjustment)]

\* Mutant: scores with a zero total are replaced by equal shares instead of
\* failing the division.
_generate_multiple_choice_forecast_EqualShares(opts, probs) ==
    IF Len(opts) /= Len(probs)
    THEN Raised("ValueError")
    ELSE LET total_sum == RSum(probs)
             decimal_list == [i \in 1..Len(probs) |->
                                 IF RIsZero(total_sum) THEN Frac(1, Len(probs))
                                 ELSE RDiv(probs[i], total_sum)]
             normalized == _normalize_list(decimal_list)
         IN  Returned([l \in {opts[i] : i \in 1..Len(opts)} |->
                         normalized[CHOOSE i \in 1..Len(opts) : opts[i] = l]])

\* Mutant: surplus scores are dropped and missing scores count as the
\* lower clamp instead of raising.
_generate_multiple_choice_forecast_Fitted(opts, probs) ==
    LET fitted == [i \in 1..Len(opts) |->
                      IF i <= Len(probs) THEN probs[i] ELSE ClampLow]
        total_sum == RSum(fitted)
    IN  IF RIsZero(total_sum)
        THEN Raised("ZeroDivisionError")
        ELSE LET decimal_list == [i \in 1..Len(fitted) |-> RDiv(fitted[i], total_sum)]
                 normalized == _normalize_list(decimal_list)
             IN  Returned([l \in {opts[i] : i \in 1..Len(opts)} |->
                             normalized[CHOOSE i \in 1..Len(opts) : opts[i] = l]])

\* Mutant: the normalized scores handed to the labels in reverse order.
_generate_multiple_choice_forecast_Reversed(opts, probs) ==
    IF Len(opts) /= Len(probs)
    THEN Raised("ValueError")
    ELSE LET total_sum == RSum(probs) IN
         IF RIsZero(total_sum)
         THEN Raised("ZeroDivisionError")
         ELSE LET decimal_list == [i \in 1..Len(probs) |-> RDiv(probs[i], total_sum)]
                  normalized == _normalize_list(decimal_list)
              IN  Returned([l \in {opts[i] : i \in 1..Len(opts)} |->
                              normalized[Len(opts) + 1 -
                                         (CHOOSE i \in 1..Len(opts) : opts[i] = l)]])

\* _generate_multiple_choice_forecast: the dictionary label -> probability, or
\* the exception it raises.
_generate_multiple_choice_forecast(opts, probs) ==
    IF Len(opts) /= Len(probs)
    THEN Raised("ValueError")
    ELSE LET total_sum == RSum(probs) IN
         IF RIsZero(total_sum)
         THEN Raised("ZeroDivisionError")
         ELSE LET decimal_list == [i \in 1..Len(probs) |-> RDiv(probs[i], total_sum)]
                  normalized == _normalize_list(decimal_list)
              IN  Returned([l \in {opts[i] : i \in 1..Len(opts)} |->
                              normalized[CHOOSE i \in 1..Len(opts) : opts[i] = l]])

(***************************************************************************)
(* Numeric / discrete CDF synthesis.                                       *)
(***************************************************************************)
CdfSizeContinuous == 201

\* A Python dict with numeric keys: a function on a finite key set.
DictSet(d, k, v) == [x \in DOMAIN d \cup {k} |-> IF x = k THEN v ELSE d[x]]
SetMax(S) == CHOOSE x \in S : \A y \in S : y <= x
SetMin(S) == CHOOSE x \in S : \A y \in S : x <= y
RSetMin(S) == CHOOSE x \in S : \A y \in S : RLe(x, y)

\* sorted(): the elements of a set of numbers in ascending order.
RECURSIVE SortedSeq(_)
SortedSeq(S) ==
    IF S = {} THEN <<>> ELSE <<RSetMin(S)>> \o SortedSeq(S \ {RSetMin(S)})

\* Mutant: the discrete grid without its closing fence post.
CdfSize_NoFencePost(q) ==
    IF q.type = "discrete" THEN q.inbound_outcome_count ELSE CdfSizeContinuous

\* forecast, lines 69-74.
CdfSize(q) ==
    IF q.type = "discrete" THEN q.inbound_outcome_count + 1 ELSE CdfSizeContinuous

\* np.linspace(0, 1, n)
Linspace01(n) == [i \in 1..n |-> IF n = 1 THEN R(0) ELSE Frac(i - 1, n - 1)]

\* base ** x for a rational base and exponent x = p/q whose result is rational.
IntRoot(a, q) == CHOOSE r \in 0..a : r ^ q = a
RPow(base, x) ==
    LET rn == IntRoot(base[1], x[2])
        rd == IntRoot(base[2], x[2])
    IN  Frac(rn ^ x[1], rd ^ x[1])

\* _generate_cdf_locations
_generate_cdf_locations(range_min, range_max, zero_point, cdf_size) ==
    LET xs == Linspace01(cdf_size)
        deriv_ratio == RDiv(RSub(range_max, zero_point), RSub(range_min, zero_point))
        scale(x) ==
            IF zero_point = None
            THEN RAdd(range_min, RMul(RSub(range_max, range_min), x))
            ELSE RAdd(range_min,
                      RDiv(RMul(RSub(range_max, range_min),
                                RSub(RPow(deriv_ratio, x), R(1))),
                           RSub(deriv_ratio, R(1))))
    IN  [i \in 1..cdf_size |-> scale(xs[i])]

\* One interpolated value, lines 309-331, against the sorted table.
InterpolateAt(x, known_x, known_y) ==
    IF \E j \in 1..Len(known_x) : known_x[j] = x
    THEN known_y[SetMin({j \in 1..Len(known_x) : known_x[j] = x})]
    ELSE LET i == Cardinality({j \in 1..Len(known_x) :
                                 \A k \in 1..j : RLt(known_x[k], x)})
         IN  IF i = 0 THEN known_y[1]
             ELSE IF i = Len(known_x) THEN known_y[Len(known_x)]
             ELSE RAdd(known_y[i],
                       RDiv(RMul(RSub(x, known_x[i]),
                                 RSub(known_y[i + 1], known_y[i])),
                            RSub(known_x[i + 1], known_x[i])))

\* _linear_interpolation: xy_pairs is a dict keyed by x.
_linear_interpolation(x_values, xy_pairs) ==
    LET known_x == SortedSeq(DOMAIN xy_pairs)
        known_y == [j \in 1..Len(known_x) |-> xy_pairs[known_x[j]]]
    IN  [i \in 1..Len(x_values) |-> InterpolateAt(x_values[i], known_x, known_y)]

\* Mutant: only a value within buffer of the closed bound, on either side of
\* it, is moved.
SnapValue_WithinBuffer(value, q, buffer) ==
    LET low == IF /\ ~q.open_lower_bound
                  /\ RLe(RAbs(RSub(value, q.range_min)), buffer)
               THEN RAdd(q.range_min, buffer) ELSE value
    IN  IF ~q.open_upper_bound /\ RLe(RAbs(RSub(value, q.range_max)), buffer)
        THEN RSub(q.range_max, buffer) ELSE low

\* Lines 209-221: the values next to a closed bound are moved off it.  Both
\* tests read the value as it was before the loop body changed it.
SnapValue(value, q, buffer) ==
    LET low == IF ~q.open_lower_bound /\ RLe(value, RAdd(q.range_min, buffer))
               THEN RAdd(q.range_min, buffer) ELSE value
    IN  IF ~q.open_upper_bound /\ RLe(RSub(q.range_max, buffer), value)
        THEN RSub(q.range_max, buffer) ELSE low

Buffer(q) ==
    LET range_size == RSub(q.range_max, q.range_min)
    IN  IF RLt(R(100), range_size) THEN R(1) ELSE RMul(Frac(1, 100), range_size)

\* Mutant: the open upper anchor keyed by half the tail, not its complement.
UpperAnchor_TailKey(pv, q, percentile_max) ==
    IF q.open_upper_bound
    THEN IF RLt(pv[percentile_max], q.range_max)
         THEN DictSet(pv, RTrunc(RMul(Frac(1, 2), R(100 - percentile_max))), q.range_max)
         ELSE pv
    ELSE DictSet(pv, 100, q.range_max)

\* Lines 223-228: the upper anchor.
UpperAnchor(pv, q, percentile_max) ==
    IF q.open_upper_bound
    THEN IF RLt(pv[percentile_max], q.range_max)
         THEN DictSet(pv, RTrunc(RSub(R(100), RMul(Frac(1, 2), R(100 - percentile_max)))),
                      q.range_max)
         ELSE pv
    ELSE DictSet(pv, 100, q.range_max)

\* Mutant: a stated percentile 0 is kept instead of being overwritten.
LowerAnchor_KeepStated(pv, q, percentile_min) ==
    IF q.open_lower_bound
    THEN IF RLt(q.range_min, pv[percentile_min])
         THEN DictSet(pv, RTrunc(RMul(Frac(1, 2), R(percentile_min))), q.range_min)
         ELSE pv
    ELSE IF 0 \in DOMAIN pv THEN pv ELSE DictSet(pv, 0, q.range_min)

\* Lines 230-234: the lower anchor.
LowerAnchor(pv, q, percentile_min) ==
    IF q.open_lower_bound
    THEN IF RLt(q.range_min, pv[percentile_min])
         THEN DictSet(pv, RTrunc(RMul(Frac(1, 2), R(percentile_min))), q.range_min)
         ELSE pv
    ELSE DictSet(pv, 0, q.range_min)

\* Lines 216-221: the loop over the stated pairs.
AdjustedValues(pv, q) == [p \in DOMAIN pv |-> SnapValue(pv[p], q, Buffer(q))]

\* The dict percentile_values as lines 209-234 leave it (the caller's dict is
\* changed in place).
AnchoredPercentiles(pv, q) ==
    LET percentile_max == SetMax(DOMAIN pv)
        percentile_min == SetMin(DOMAIN pv)
    IN  LowerAnchor(UpperAnchor(AdjustedValues(pv, q), q, percentile_max), q, percentile_min)

\* Lines 236-246: keys sorted and divided by 100, then the dict is inverted;
\* of two percentiles with one value the later (larger) key is kept.
ValuePercentiles(pv) ==
    [v \in {pv[p] : p \in DOMAIN pv} |->
        Frac(SetMax({p \in DOMAIN pv : pv[p] = v}), 100)]

_generate_continuous_cdf(pv, q, cdf_size) ==
    LET value_percentiles == ValuePercentiles(AnchoredPercentiles(pv, q))
        cdf_xaxis == _generate_cdf_locations(q.range_min, q.range_max, q.zero_point, cdf_size)
    IN  _linear_interpolation(cdf_xaxis, value_percentiles)

\* Mutant: the middle of the list as given, without sorting it.
Median_Unsorted(xs) ==
    LET n == Len(xs)
    IN  IF n % 2 = 1 THEN xs[(n + 1) \div 2]
        ELSE RDiv(RAdd(xs[n \div 2], xs[n \div 2 + 1]), R(2))

\* np.median of a list of numbers.
Median(xs) ==
    LET s == SortSeq(xs, LAMBDA a, b : RLt(a, b))
        n == Len(xs)
    IN  IF n % 2 = 1 THEN s[(n + 1) \div 2]
        ELSE RDiv(RAdd(s[n \div 2], s[n \div 2 + 1]), R(2))

\* Mutant: the median taken along each run's CDF (axis=1), one value per run.
MedianAxis0_Axis1(all_cdfs) ==
    [r \in 1..Len(all_cdfs) |-> Median(all_cdfs[r])]

\* np.median(np.array(cdfs), axis=0).tolist()
MedianAxis0(all_cdfs) ==
    [i \in 1..Len(all_cdfs[1]) |-> Median([r \in 1..Len(all_cdfs) |-> all_cdfs[r][i]])]

(***************************************************************************)
(* Extraction layer.  A text is a sequence of one-character strings.       *)
(***************************************************************************)
MaxTextLen == 5
Digits == {"0", "7"}
Chars == Digits \cup {"%", ",", ".", "-", "\n"}
Texts == UNION {[1..n -> Chars] : n \in 0..MaxTextLen}

IsDigit(c) == c \in {"0", "1", "2", "3", "4", "5", "6", "7", "8", "9"}
DigitValue(c) ==
    CASE c = "0" -> 0 [] c = "1" -> 1 [] c = "2" -> 2 [] c = "3" -> 3 [] c = "4" -> 4
      [] c = "5" -> 5 [] c = "6" -> 6 [] c = "7" -> 7 [] c = "8" -> 8 [] c = "9" -> 9

\* The end of the maximal digit run that starts at i (text[i] is a digit).
RECURSIVE DigitRunEnd(_, _)
DigitRunEnd(text, i) ==
    IF i < Len(text) /\ IsDigit(text[i + 1]) THEN DigitRunEnd(text, i + 1) ELSE i

\* int() of a string of digits.
RECURSIVE ParseInt(_)
ParseInt(ds) ==
    IF ds = <<>> THEN 0
    ELSE 10 * ParseInt(SubSeq(ds, 1, Len(ds) - 1)) + DigitValue(ds[Len(ds)])

\* re.findall(r"(\d+)%", text), scanning from position i.
RECURSIVE FindPercentages(_, _)
FindPercentages(text, i) ==
    IF i > Len(text) THEN <<>>
    ELSE IF IsDigit(text[i])
         THEN LET j == DigitRunEnd(text, i) IN
              IF j < Len(text) /\ text[j + 1] = "%"
              THEN <<SubSeq(text, i, j)>> \o FindPercentages(text, j + 2)
              ELSE FindPercentages(text, i + 1)
         ELSE FindPercentages(text, i + 1)

\* Mutant: the first match is taken instead of the last.
PickMatch_First(matches) == matches[1]

\* matches[-1]
PickMatch(matches) == matches[Len(matches)]

\* extract_probability_percentage
extract_probability_percentage(text) ==
    LET matches == FindPercentages(text, 1) IN
    IF matches /= <<>>
    THEN LET number == ParseInt(PickMatch(matches))
             clamped == IF number < 1 THEN 1 ELSE IF number > 99 THEN 99 ELSE number
         IN  Returned(Frac(clamped, 100))
    ELSE Raised("ValueError")

\* str.split("\n")
RECURSIVE SplitLines(_)
SplitLines(text) ==
    IF \E i \in 1..Len(text) : text[i] = "\n"
    THEN LET i == SetMin({k \in 1..Len(text) : text[k] = "\n"})
         IN  <<SubSeq(text, 1, i - 1)>> \o SplitLines(SubSeq(text, i + 1, Len(text)))
    ELSE <<text>>

\* (?:,\d{3})* from position e + 1: the end of the last group taken.
RECURSIVE CommaGroupsEnd(_, _)
CommaGroupsEnd(line, e) ==
    IF /\ e + 4 <= Len(line)
       /\ line[e + 1] = ","
       /\ IsDigit(line[e + 2]) /\ IsDigit(line[e + 3]) /\ IsDigit(line[e + 4])
    THEN CommaGroupsEnd(line, e + 4)
    ELSE e

\* (?:\.\d+)? from position e + 1.
FractionEnd(line, e) ==
    IF e + 2 <= Len(line) /\ line[e + 1] = "." /\ IsDigit(line[e + 2])
    THEN DigitRunEnd(line, e + 2)
    ELSE e

\* float(num) if "." in num else int(num), after num.replace(",", "").
NumberValue(token) ==
    LET neg == token[1] = "-"
        body == SelectSeq(IF neg THEN Tail(token) ELSE token, LAMBDA c : c /= ",")
        dot == {k \in 1..Len(body) : body[k] = "."}
        magnitude ==
            IF dot = {} THEN R(ParseInt(body))
            ELSE LET k == SetMin(dot)
                     frac == SubSeq(body, k + 1, Len(body))
                 IN  RAdd(R(ParseInt(SubSeq(body, 1, k - 1))),
                          Frac(ParseInt(frac), 10 ^ Len(frac)))
    IN  IF neg THEN RNeg(magnitude) ELSE magnitude

\* re.findall(r"-?\d+(?:,\d{3})*(?:\.\d+)?", line), scanning from position i.
RECURSIVE FindNumbers(_, _)
FindNumbers(line, i) ==
    IF i > Len(line) THEN <<>>
    ELSE LET signed == line[i] = "-" /\ i < Len(line) /\ IsDigit(line[i + 1])
             first == IF signed THEN i + 1 ELSE i
         IN  IF signed \/ IsDigit(line[i])
             THEN LET e == FractionEnd(line, CommaGroupsEnd(line, DigitRunEnd(line, first)))
                  IN  <<NumberValue(SubSeq(line, i, e))>> \o FindNumbers(line, e + 1)
             ELSE FindNumbers(line, i + 1)

\* Lines 117-128: the last number of every line that has one, in document order.
RECURSIVE LastNumbers(_)
LastNumbers(lines) ==
    IF lines = <<>> THEN <<>>
    ELSE LET numbers == FindNumbers(Head(lines), 1)
         IN  (IF numbers /= <<>> THEN <<numbers[Len(numbers)]>> ELSE <<>>)
                 \o LastNumbers(Tail(lines))

\* Mutant: the first num_options collected values are returned.
TakeOptions_First(results, num_options) == SubSeq(results, 1, num_options)

\* results[-num_options:]
TakeOptions(results, num_options) ==
    IF num_options = 0 THEN results
    ELSE SubSeq(results, Len(results) - num_options + 1, Len(results))

\* extract_option_probabilities
extract_option_probabilities(text, num_options) ==
    LET results == LastNumbers(SplitLines(text)) IN
    IF Len(results) >= num_options
    THEN Returned(TakeOptions(results, num_options))
    ELSE Raised("ValueError")

(***************************************************************************)
(* extract_percentiles.  In its texts the word "Percentile" (or            *)
(* "percentile") is one element of the sequence; it stands for those ten   *)
(* letters, none of which is a digit, a minus sign or a colon.             *)
(***************************************************************************)
MaxLineLen == 6
MaxLines == 3
LineChars == {"Percentile", "7", "0", ":", "-"}
\* Every single line of up to MaxLineLen elements.
SingleLines == UNION {[1..n -> LineChars] : n \in 0..MaxLineLen}
\* The lines longer answers are put together from: "Percentile 10: 5",
\* "Percentile 10: -5", "Percentile 20: 7", "percentile 20: 1,000.5",
\* "Percentile 40", "Median: 10 20", "Percentile 10.5 - 20: 3" and "".
SampleLines ==
    { <<"Percentile", " ", "1", "0", ":", " ", "5">>,
      <<"Percentile", " ", "1", "0", ":", " ", "-", "5">>,
      <<"Percentile", " ", "2", "0", ":", " ", "7">>,
      <<"percentile", " ", "2", "0", ":", " ", "1", ",", "0", "0", "0", ".", "5">>,
      <<"Percentile", " ", "4", "0">>,
      <<"M", "e", "d", "i", "a", "n", ":", " ", "1", "0", " ", "2", "0">>,
      <<"Percentile", " ", "1", "0", ".", "5", " ", "-", " ", "2", "0", ":", " ", "3">>,
      <<>> }

\* "\n".join(lines)
RECURSIVE JoinLines(_)
JoinLines(lines) ==
    IF Len(lines) = 1 THEN lines[1]
    ELSE lines[1] \o <<"\n">> \o JoinLines(Tail(lines))

PercentileTexts ==
    SingleLines \cup
    {JoinLines(ls) : ls \in UNION {[1..n -> SampleLines] : n \in 2..MaxLines}}

\* re.match(r"^.*(?:P|p)ercentile.*$", line)
IsPercentileLine(line) ==
    \E k \in 1..Len(line) : line[k] \in {"Percentile", "percentile"}

\* \s*(?:[^\d\-]*\s*)? from position i: the first position at or after i
\* that holds a digit or a minus sign, else Len(line) + 1.
RECURSIVE SkipNonDigits(_, _)
SkipNonDigits(line, i) ==
    IF i <= Len(line) /\ ~IsDigit(line[i]) /\ line[i] # "-"
    THEN SkipNonDigits(line, i + 1)
    ELSE i

\* re.findall(number_pattern, line) followed by lines 63-68, scanning from
\* position i: a minus sign, whatever follows it that is neither digit nor
\* minus, and a number, of which only the number is captured; or a number.
RECURSIVE FindPercentileNumbers(_, _)
FindPercentileNumbers(line, i) ==
    IF i > Len(line) THEN <<>>
    ELSE LET first == IF line[i] = "-" THEN SkipNonDigits(line, i + 1) ELSE i
         IN  IF first <= Len(line) /\ IsDigit(line[first])
             THEN LET e == FractionEnd(line, CommaGroupsEnd(line, DigitRunEnd(line, first)))
                  IN  <<NumberValue(SubSeq(line, first, e))>>
                          \o FindPercentileNumbers(line, e + 1)
             ELSE FindPercentileNumbers(line, i + 1)

\* line.split(":")[-1]
LastSegment(line) ==
    LET colons == {k \in 1..Len(line) : line[k] = ":"}
    IN  IF colons = {} THEN line ELSE SubSeq(line, SetMax(colons) + 1, Len(line))

HasMinus(segment) == \E k \in 1..Len(segment) : segment[k] = "-"


\* Mutant: a line with a single number is paired with itself.
PercentilePairs_SingleNumber(line) ==
    LET numbers == FindPercentileNumbers(line, 1) IN
    IF IsPercentileLine(line) /\ Len(numbers) > 0
    THEN <<[first_num |-> numbers[1],
            second_num |-> IF HasMinus(LastSegment(line))
                           THEN RNeg(RAbs(numbers[Len(numbers)]))
                           ELSE numbers[Len(numbers)]]>>
    ELSE <<>>

\* Lines 61-78 for one line: the pair it appends to results, if any.
PercentilePairs(line) ==
    LET numbers == FindPercentileNumbers(line, 1) IN
    IF IsPercentileLine(line) /\ Len(numbers) > 1
    THEN <<[first_num |-> numbers[1],
            second_num |-> IF HasMinus(LastSegment(line))
                           THEN RNeg(RAbs(numbers[Len(numbers)]))
                           ELSE numbers[Len(numbers)]]>>
    ELSE <<>>

RECURSIVE PercentileResults(_)
PercentileResults(lines) ==
    IF lines = <<>> THEN <<>>
    ELSE PercentilePairs(Head(lines)) \o PercentileResults(Tail(lines))

\* Lines 81-84: key int(first_num), the later pair replacing the earlier.
PercentileDict(results) ==
    [key \in {RTrunc(results[k].first_num) : k \in 1..Len(results)} |->
        results[SetMax({k \in 1..Len(results) :
                          RTrunc(results[k].first_num) = key})].second_num]

\* extract_percentiles
extract_percentiles(text) ==
    LET values == PercentileDict(PercentileResults(SplitLines(text)))
    IN  IF DOMAIN values # {}
        THEN Returned(values)
        ELSE Raised("ValueError")

ExtInit ==
    /\ LocalIdle
    /\ BotIdle
    /\ MCIdle
    /\ NumIdle
    /\ AggIdle
    /\ forecast_text \in Texts
    /\ extraction = [fn |-> "none"]

\* BinaryForecaster._get_single_forecast, line 105.
ExtractProbability ==
    /\ extraction.fn = "none"
    /\ extraction' = [fn |-> "extract_probability_percentage",
                      result |-> extract_probability_percentage(forecast_text)]
    /\ UNCHANGED forecast_text
    /\ UNCHANGED <<mcVars, numVars, aggVars, botVars, localVars>>

\* MultipleChoiceForecaster._get_single_forecast, line 120, for a question of
\* num_options options.
ExtractOptions ==
    /\ extraction.fn = "none"
    /\ \E num_options \in 1..MaxOptions :
          extraction' = [fn |-> "extract_option_probabilities",
                         num_options |-> num_options,
                         result |-> extract_option_probabilities(forecast_text, num_options)]
    /\ UNCHANGED forecast_text
    /\ UNCHANGED <<mcVars, numVars, aggVars, botVars, localVars>>

ExtNext == ExtractProbability \/ ExtractOptions

PctInit ==
    /\ LocalIdle
    /\ BotIdle
    /\ MCIdle
    /\ NumIdle
    /\ AggIdle
    /\ forecast_text \in PercentileTexts
    /\ extraction = [fn |-> "none"]

\* NumericForecaster._get_single_forecast, line 162.
ExtractPercentiles ==
    /\ extraction.fn = "none"
    /\ extraction' = [fn |-> "extract_percentiles",
                      result |-> extract_percentiles(forecast_text)]
    /\ UNCHANGED forecast_text
    /\ UNCHANGED <<mcVars, numVars, aggVars, botVars, localVars>>

(***************************************************************************)


(* Inputs of the numeric forecaster.                                       *)
(***************************************************************************)
MaxStated == 2
MaxRuns == 2
OutcomeCount == 4
PercentileKeys == {0, 5, 50, 95, 100}
PercentileKeysContinuous == {5, 50, 100}

Question(type, lo, hi, zp, open_lo, open_hi) ==
    [type |-> type, range_min |-> R(lo), range_max |-> R(hi), zero_point |-> zp,
     open_lower_bound |-> open_lo, open_upper_bound |-> open_hi,
     inbound_outcome_count |-> OutcomeCount]

Questions ==
    {Question("numeric", 0, 400, None, ol, ou) : ol \in BOOLEAN, ou \in BOOLEAN}
    \cup {Question("discrete", 0, 100, None, ol, ou) : ol \in BOOLEAN, ou \in BOOLEAN}
    \cup {Question("discrete", 1, 2 ^ OutcomeCount, R(0), ol, ou) : ol \in BOOLEAN, ou \in BOOLEAN}

\* Values a model may state for a question: below, on and next to each bound,
\* and inside the range.
At(q, pct) ==
    RAdd(q.range_min, RMul(Frac(pct, 100), RSub(q.range_max, q.range_min)))
ValuesFor(q) ==
    {RSub(q.range_min, R(5)), q.range_min, RAdd(q.range_min, Buffer(q)),
     At(q, 50),
     RSub(q.range_max, Buffer(q)), q.range_max, RAdd(q.range_max, R(5))}

StatedKeys(q) == IF q.type = "numeric" THEN PercentileKeysContinuous ELSE PercentileKeys
PercentileMaps(q) ==
    UNION {[ks -> ValuesFor(q)] :
             ks \in {K \in SUBSET StatedKeys(q) : Cardinality(K) \in 1..MaxStated}}

\* The answer "10th: 20%, 50th: 50%, 90th: 80% of the range".
Stated(q, pairs) == [k \in DOMAIN pairs |-> At(q, pairs[k])]
ScenarioMap(q) == Stated(q, [k \in {10, 50, 90} |-> IF k = 10 THEN 20 ELSE IF k = 50 THEN 50 ELSE 80])
SiblingMaps(q) == {ScenarioMap(q)}

NumInit ==
    /\ LocalIdle
    /\ BotIdle
    /\ MCIdle
    /\ ExtIdle
    /\ AggIdle
    /\ question_details \in Questions
    /\ num_runs = 0
    /\ extracted = None
    /\ adjusted_values = None
    /\ percentile_values = None
    /\ cdfs = <<>>
    /\ median_cdf = NoValue
    /\ num_pc = "idle"

\* forecast(question_details, num_runs) is called and its first run returns:
\* the model's answer yields the percentile map pv (line 162), which is
\* synthesized (lines 164-173).
NumFirstRun ==
    /\ num_pc = "idle"
    /\ \E pv \in PercentileMaps(question_details) \cup {ScenarioMap(question_details)} :
          /\ extracted' = pv
          /\ cdfs' = <<_generate_continuous_cdf(pv, question_details,
                                                CdfSize(question_details))>>
          /\ adjusted_values' = AdjustedValues(pv, question_details)
          /\ percentile_values' = AnchoredPercentiles(pv, question_details)
    /\ \E n \in 1..MaxRuns : num_runs' = n
    /\ num_pc' = "running"
    /\ UNCHANGED <<question_details, median_cdf>>
    /\ UNCHANGED <<mcVars, extVars, aggVars, botVars, localVars>>

\* _get_single_forecast of a later run, whose model answer is its own.
NumSiblingRun ==
    /\ num_pc = "running"
    /\ cdfs /= <<>>
    /\ Len(cdfs) < num_runs
    /\ \E m \in SiblingMaps(question_details) :
          cdfs' = Append(cdfs, _generate_continuous_cdf(m, question_details,
                                                        CdfSize(question_details)))
    /\ UNCHANGED <<question_details, num_runs, extracted, adjusted_values, percentile_values,
                   median_cdf, num_pc>>
    /\ UNCHANGED <<mcVars, extVars, aggVars, botVars, localVars>>

\* forecast, lines 120-131: all runs have returned.
NumAggregate ==
    /\ num_pc = "running"
    /\ Len(cdfs) = num_runs
    /\ median_cdf' = Returned(MedianAxis0(cdfs))
    /\ num_pc' = "returned"
    /\ UNCHANGED <<question_details, num_runs, extracted, adjusted_values, percentile_values, cdfs>>
    /\ UNCHANGED <<mcVars, extVars, aggVars, botVars, localVars>>

NumNext == NumFirstRun \/ NumSiblingRun \/ NumAggregate

(***************************************************************************)
(* Run aggregator.                                                         *)
(***************************************************************************)
MaxAggRuns == 3
RunProbabilities == {Frac(k, 100) : k \in {1, 65, 73, 80, 99}}
AggOptions == <<"A", "B", "C">>
AggScores == {<<R(10), R(10), R(80)>>, <<R(80), R(10), R(10)>>,
              <<R(1), R(1), R(98)>>, <<R(1), R(1), R(998)>>}
RunCategoricals == {_generate_multiple_choice_forecast(AggOptions, sc).value : sc \in AggScores}
AggQuestion == Question("discrete", 0, 100, None, FALSE, FALSE)
AggMaps ==
    {ScenarioMap(AggQuestion),
     Stated(AggQuestion, [k \in {50} |-> 50]),
     Stated(AggQuestion, [k \in {50} |-> 20]),
     Stated(AggQuestion, [k \in {5, 95} |-> IF k = 5 THEN 40 ELSE 60]),
     Stated(AggQuestion, [k \in {5, 95} |-> IF k = 5 THEN 60 ELSE 40])}
RunCdfs == {_generate_continuous_cdf(m, AggQuestion, CdfSize(AggQuestion)) : m \in AggMaps}

Orders(n) == {f \in [1..n -> 1..n] : \A i, j \in 1..n : f[i] = f[j] => i = j}
Reordered(xs, perm) == [i \in 1..Len(xs) |-> xs[perm[i]]]

\* Mutant: the per-label sum, never divided by the number of runs.
AverageCategorical_Sum(opts, dicts) ==
    [o \in {opts[i] : i \in 1..Len(opts)} |->
        RSum([r \in 1..Len(dicts) |-> dicts[r][o]])]

\* Mutant: the first run's mapping is returned as the average.
AverageCategorical_FirstRun(opts, dicts) ==
    [o \in {opts[i] : i \in 1..Len(opts)} |-> dicts[1][o]]

\* MultipleChoiceForecaster.forecast, lines 87-95.
AverageCategorical(opts, dicts) ==
    [o \in {opts[i] : i \in 1..Len(opts)} |->
        RDiv(RSum([r \in 1..Len(dicts) |-> dicts[r][o]]), R(Len(dicts)))]

AggInit ==
    /\ LocalIdle
    /\ BotIdle
    /\ MCIdle
    /\ NumIdle
    /\ ExtIdle
    /\ kind \in {"binary", "multiple_choice", "numeric"}
    /\ \E n \in 1..MaxAggRuns :
          /\ run_results \in [1..n -> CASE kind = "binary" -> RunProbabilities
                                        [] kind = "multiple_choice" -> RunCategoricals
                                        [] kind = "numeric" -> RunCdfs]
          /\ permutation \in Orders(n)
    /\ aggregated = NoValue
    /\ aggregated_permuted = NoValue

AggFrame == UNCHANGED <<kind, run_results, permutation, mcVars, numVars, extVars, botVars,
                        localVars>>

\* BinaryForecaster.forecast, lines 82-85.
AggregateBinary ==
    /\ kind = "binary" /\ aggregated = NoValue
    /\ aggregated' = Returned(Median(run_results))
    /\ aggregated_permuted' = Returned(Median(Reordered(run_results, permutation)))
    /\ AggFrame

\* MultipleChoiceForecaster.forecast, lines 81-95.
AggregateMultipleChoice ==
    /\ kind = "multiple_choice" /\ aggregated = NoValue
    /\ aggregated' = Returned(AverageCategorical(AggOptions, run_results))
    /\ aggregated_permuted' =
           Returned(AverageCategorical(AggOptions, Reordered(run_results, permutation)))
    /\ AggFrame

\* NumericForecaster.forecast, lines 120-125.
AggregateNumeric ==
    /\ kind = "numeric" /\ aggregated = NoValue
    /\ aggregated' = Returned(MedianAxis0(run_results))
    /\ aggregated_permuted' = Returned(MedianAxis0(Reordered(run_results, permutation)))
    /\ AggFrame

AggNext == AggregateBinary \/ AggregateMultipleChoice \/ AggregateNumeric

MCInit ==
    /\ LocalIdle
    /\ BotIdle
    /\ NumIdle
    /\ ExtIdle
    /\ AggIdle
    /\ options \in OptionLists
    /\ option_probabilities \in ScoreLists
    /\ probability_yes_per_category = NoValue
    /\ mc_pc = "called"

MCGenerate ==
    /\ mc_pc = "called"
    /\ probability_yes_per_category' =
           _generate_multiple_choice_forecast(options, option_probabilities)
    /\ mc_pc' = "returned"
    /\ UNCHANGED <<options, option_probabilities>>
    /\ UNCHANGED <<numVars, extVars, aggVars, botVars, localVars>>

(***************************************************************************)
(* The bot facade (main.py) and the admission gate (utils/llm_client.py).   *)
(*                                                                         *)
(* ForecastingBot builds one RateLimiter and hands it to the API client    *)
(* and to the local client.  forecast_questions gathers one                *)
(* forecast_question task per question; each task fetches the post,        *)
(* researches through the API client (five calls, one after the other),    *)
(* then gathers num_runs _get_single_forecast tasks through the            *)
(* forecasting client.  Tasks run on one event loop, so each action below  *)
(* is the code tasks execute between two suspensions; the tasks a gather   *)
(* creates take their first steps back to back, in creation order.  Model  *)
(* answers, HTTP outcomes and the server's data are inputs chosen by \E.   *)
(* Research is the LLMResearchProvider of main.py line 49.  The three      *)
(* forecasters' forecast methods have the same shape (research, prompt,    *)
(* gather of the runs, aggregation); binary.py is the one cited.           *)
(***************************************************************************)
concurrent_requests_limit == 2
num_runs_per_question == 2
local_llm_max_retries == 3
ResearchSteps == 5

QuestionIds == {1, 2}
Runs == 1..num_runs_per_question
\* <<q, 0>> is question q's research call, <<q, i>> the call of its run i.
Calls == {<<q, i>> : q \in QuestionIds, i \in 0..num_runs_per_question}
\* The providers the constructor chooses between: the five-step LLM
\* provider, whose calls go through the API client and the gate, and the
\* Perplexity provider, one blocking request outside the gate.
ResearchProviders == {"LLMResearchProvider", "PerplexityResearchProvider"}
\* The types forecast_question dispatches on; any other type is rejected.
QuestionTypes == {"binary", "multiple_choice", "numeric", "discrete"}
\* What get_post_details can bring back for a question.
Posts == [fetched : BOOLEAN, type : QuestionTypes \cup {"other"},
          has_existing_forecast : BOOLEAN]
\* The batch: question 1 is a multiple-choice question unless the server
\* reports an unknown type, question 2 is of any other type.
PostTypes == <<{"multiple_choice", "other"},
               (QuestionTypes \cup {"other"}) \ {"multiple_choice"}>>
IsMultipleChoice(q) == "multiple_choice" \in PostTypes[q]
\* The option scores extract_option_probabilities can hand to a run of the
\* multiple-choice question, one per label: an ordinary answer, all zeros,
\* and scores of mixed sign that cancel.
RunScores == {<<R(10), R(10), R(80)>>, <<R(0), R(0), R(0)>>,
              <<R(10), R(-10), R(0)>>}

Error(name, i) == Raised([name |-> name, run |-> i])

\* The runs of question q's forecast: range(num_runs).
RunsOf(q) == DOMAIN run_task[q]

Gate == [value |-> semaphore_value, waiters |-> semaphore_waiters, pc |-> call_pc]

SetGate(g) ==
    /\ semaphore_value' = g.value
    /\ semaphore_waiters' = g.waiters
    /\ call_pc' = g.pc

\* Mutant: a call that issues its request without asking the gate.
acquire_Unchecked(g, c) ==
    [g EXCEPT !.pc[c] = "calling"]

\* RateLimiter.__aenter__: take a permit and issue the request, or suspend
\* behind the calls already waiting.
acquire(g, c) ==
    IF g.value > 0 /\ g.waiters = <<>>
    THEN [g EXCEPT !.value = @ - 1, !.pc[c] = "calling"]
    ELSE [g EXCEPT !.waiters = Append(@, c), !.pc[c] = "waiting"]

\* Mutant: a release that bumps the counter and wakes nobody.
release_LostWakeup(g, c) ==
    [g EXCEPT !.value = @ + 1, !.pc[c] = "idle"]

\* RateLimiter.__aexit__: give the permit back; the oldest waiter, if any,
\* takes it at once.
release(g, c) ==
    IF g.waiters = <<>>
    THEN [g EXCEPT !.value = @ + 1, !.pc[c] = "idle"]
    ELSE [g EXCEPT !.waiters = Tail(@), !.pc[c] = "idle",
                   !.pc[Head(g.waiters)] = "calling"]

\* The first step of each research task in `starting`, in task order.
RECURSIVE StartResearch(_, _, _)
StartResearch(g, starting, q) ==
    IF q > SetMax(QuestionIds) THEN g
    ELSE StartResearch(IF q \in starting THEN acquire(g, <<q, 0>>) ELSE g,
                       starting, q + 1)

\* The first step of question q's run tasks i, i+1, ..., in launch order.
RECURSIVE StartRuns(_, _, _)
StartRuns(g, q, i) ==
    IF i > Len(run_task[q]) THEN g
    ELSE StartRuns(acquire(g, <<q, i>>), q, i + 1)

\* Mutant: a gather that collects exceptions and hands back what succeeded.
gather_ReturnExceptions(outcomes, exception) ==
    IF \A i \in DOMAIN outcomes : outcomes[i].status # "none"
    THEN Returned(SeqMap(LAMBDA o : o.value,
                         SelectSeq(outcomes, LAMBDA o : o.status = "returned")))
    ELSE NoValue

\* Mutant: a gather that hands back the results it has as soon as one run
\* has returned.
gather_FirstCompleted(outcomes, exception) ==
    IF exception # NoValue THEN exception
    ELSE IF \E i \in DOMAIN outcomes : outcomes[i].status = "returned"
    THEN Returned(SeqMap(LAMBDA o : o.value,
                         SelectSeq(outcomes, LAMBDA o : o.status = "returned")))
    ELSE NoValue

\* What the awaited asyncio.gather(*runs) of forecast yields: the first
\* exception a run raised, else every run's result in launch order once all
\* have returned, else nothing yet.
gather(outcomes, exception) ==
    IF exception # NoValue THEN exception
    ELSE IF \A i \in DOMAIN outcomes : outcomes[i].status = "returned"
    THEN Returned([i \in DOMAIN outcomes |-> outcomes[i].value])
    ELSE NoValue

\* The errors a run of question q can raise after its model call returned
\* an answer: the extractors' ValueError and, in a multiple-choice run, what
\* _generate_multiple_choice_forecast raises on the extracted scores.
NormalizationErrors ==
    {_generate_multiple_choice_forecast(AggOptions, s).error :
       s \in {t \in RunScores :
                _generate_multiple_choice_forecast(AggOptions, t).status = "raised"}}
SynthesisErrors(q) ==
    {"ValueError"} \cup IF IsMultipleChoice(q) THEN NormalizationErrors ELSE {}

BotInit ==
    /\ LocalIdle
    /\ MCIdle
    /\ NumIdle
    /\ ExtIdle
    /\ AggIdle
    /\ use_local_llm_for_forecasting \in BOOLEAN
    /\ research_provider \in ResearchProviders
    /\ submit_prediction = TRUE
    /\ skip_previously_forecasted_questions = TRUE
    /\ semaphore_value = concurrent_requests_limit
    /\ semaphore_waiters = <<>>
    /\ call_pc = [c \in Calls |-> "idle"]
    /\ attempt = [c \in Calls |-> 0]
    /\ question_task = [q \in QuestionIds |-> "created"]
    /\ research_step = [q \in QuestionIds |-> 0]
    /\ summary_report = [q \in QuestionIds |-> "none"]
    /\ run_task = [q \in QuestionIds |-> [i \in Runs |-> "unborn"]]
    /\ run_outcome = [q \in QuestionIds |-> [i \in Runs |-> NoValue]]
    /\ gather_exception = [q \in QuestionIds |-> NoValue]
    /\ out_of_order = [q \in QuestionIds |-> FALSE]
    /\ final_comment = [q \in QuestionIds |-> None]
    /\ forecast = [q \in QuestionIds |-> NoValue]
    /\ posted = [q \in QuestionIds |-> "nothing"]
    /\ post_calls = [q \in QuestionIds |-> <<>>]
    /\ my_forecasts = [q \in QuestionIds |-> NoValue]
    /\ forecast_summaries = [q \in QuestionIds |-> NoValue]
    /\ printed = <<>>
    /\ batch = "created"

ConfigFrame == UNCHANGED <<use_local_llm_for_forecasting, research_provider,
                           submit_prediction,
                           skip_previously_forecasted_questions,
                           mcVars, numVars, extVars, aggVars, localVars>>

BotFrame == ConfigFrame /\ UNCHANGED <<printed, final_comment>>

Skipped(post) == skip_previously_forecasted_questions /\ post.has_existing_forecast

Researches(post) == post.fetched /\ ~Skipped(post) /\ post.type \in QuestionTypes

\* forecast_questions creates the question tasks and each runs
\* forecast_question from its first line to its first suspension: the post
\* is fetched, an already forecast question is skipped, an unknown type is
\* rejected, otherwise research begins.  The LLM provider's step 1 asks for
\* the gate; the Perplexity provider's blocking request ends with a report
\* or, on any exception, with the placeholder, and forecast creates its run
\* tasks.
ForecastQuestionsStart ==
    /\ batch = "created"
    /\ batch' = "gathering"
    /\ \E post \in {p \in [QuestionIds -> Posts] :
                       \A q \in QuestionIds : p[q].type \in PostTypes[q]} :
          LET starting == {q \in QuestionIds : Researches(post[q])}
              gated == IF research_provider = "LLMResearchProvider"
                       THEN starting ELSE {}
              researched == starting \ gated
          IN
          /\ question_task' = [q \in QuestionIds |->
                 IF q \in gated THEN "researching"
                 ELSE IF q \in researched THEN "gathering" ELSE "done"]
          /\ research_step' = [q \in QuestionIds |->
                 IF q \in gated THEN 1 ELSE 0]
          /\ summary_report' \in
                 {r \in [QuestionIds -> {"none", "report", "placeholder"}] :
                    \A q \in QuestionIds : r[q] = "none" <=> q \notin researched}
          /\ run_task' = [q \in QuestionIds |->
                 IF q \in researched THEN [i \in RunsOf(q) |-> "created"]
                 ELSE run_task[q]]
          /\ forecast_summaries' = [q \in QuestionIds |->
                 IF q \in starting THEN NoValue
                 ELSE IF ~post[q].fetched THEN Error("RuntimeError", 0)
                 ELSE IF Skipped(post[q]) THEN Returned("skipped")
                 ELSE Error("ValueError", 0)]
          /\ my_forecasts' = [q \in QuestionIds |->
                 IF post[q].fetched THEN Returned(post[q].has_existing_forecast)
                 ELSE NoValue]
          /\ SetGate(StartResearch(Gate, gated, SetMin(QuestionIds)))
          /\ attempt' = [c \in DOMAIN call_pc |->
                 IF c[2] = 0 /\ c[1] \in gated THEN 1 ELSE 0]
    /\ UNCHANGED <<run_outcome, gather_exception, out_of_order, forecast, posted,
                   post_calls>>
    /\ BotFrame

\* A research call returns its answer: the gate is left, and either the
\* next step asks for it again or, after step 5, the report is final and
\* forecast creates its run tasks.
ResearchStepReturns(q) ==
    /\ call_pc[<<q, 0>>] = "calling"
    /\ IF research_step[q] < ResearchSteps
       THEN /\ research_step' = [research_step EXCEPT ![q] = @ + 1]
            /\ SetGate(acquire(release(Gate, <<q, 0>>), <<q, 0>>))
            /\ UNCHANGED <<attempt, summary_report, run_task, question_task>>
       ELSE /\ SetGate(release(Gate, <<q, 0>>))
            /\ attempt' = [attempt EXCEPT ![<<q, 0>>] = 0]
            /\ summary_report' = [summary_report EXCEPT ![q] = "report"]
            /\ run_task' = [run_task EXCEPT ![q] = [i \in RunsOf(q) |-> "created"]]
            /\ question_task' = [question_task EXCEPT ![q] = "gathering"]
            /\ research_step' = [research_step EXCEPT ![q] = 0]
    /\ UNCHANGED <<run_outcome, gather_exception, out_of_order, forecast, posted,
                   post_calls, my_forecasts,
                   forecast_summaries, batch>>
    /\ BotFrame

\* Mutant: the exception of a research call leaves conduct_research and
\* fails the question.
ResearchStepRaises_Propagates(q) ==
    /\ call_pc[<<q, 0>>] = "calling"
    /\ SetGate(release(Gate, <<q, 0>>))
    /\ attempt' = [attempt EXCEPT ![<<q, 0>>] = 0]
    /\ forecast' = [forecast EXCEPT ![q] = Error("APIError", 0)]
    /\ forecast_summaries' = [forecast_summaries EXCEPT ![q] = Error("APIError", 0)]
    /\ question_task' = [question_task EXCEPT ![q] = "done"]
    /\ research_step' = [research_step EXCEPT ![q] = 0]
    /\ UNCHANGED <<summary_report, run_task, run_outcome, gather_exception, out_of_order,
                   posted, post_calls, my_forecasts, batch>>
    /\ BotFrame

\* A research call raises (request error or empty answer): the gate is
\* left, conduct_research returns its placeholder, the remaining steps are
\* not run, and forecast creates its run tasks.
ResearchStepRaises(q) ==
    /\ call_pc[<<q, 0>>] = "calling"
    /\ SetGate(release(Gate, <<q, 0>>))
    /\ attempt' = [attempt EXCEPT ![<<q, 0>>] = 0]
    /\ summary_report' = [summary_report EXCEPT ![q] = "placeholder"]
    /\ run_task' = [run_task EXCEPT ![q] = [i \in RunsOf(q) |-> "created"]]
    /\ question_task' = [question_task EXCEPT ![q] = "gathering"]
    /\ research_step' = [research_step EXCEPT ![q] = 0]
    /\ UNCHANGED <<run_outcome, gather_exception, out_of_order, forecast, posted,
                   post_calls, my_forecasts,
                   forecast_summaries, batch>>
    /\ BotFrame

\* The run tasks of question q take their first steps: each call asks for
\* the gate, in launch order.
RunsStart(q) ==
    /\ \A i \in RunsOf(q) : run_task[q][i] = "created"
    /\ run_task' = [run_task EXCEPT ![q] = [i \in RunsOf(q) |-> "started"]]
    /\ SetGate(StartRuns(Gate, q, 1))
    /\ attempt' = [c \in DOMAIN call_pc |-> IF c[1] = q /\ c[2] > 0 THEN 1 ELSE attempt[c]]
    /\ UNCHANGED <<question_task, research_step, summary_report,
                   run_outcome, gather_exception, out_of_order, forecast, posted,
                   post_calls, my_forecasts,
                   forecast_summaries, batch>>
    /\ BotFrame

\* Mutant: the sections numbered from the last comment to the first.
_format_comment_Reversed(aggregate, comments) ==
    <<aggregate>> \o [i \in 1..Len(comments) |->
                        [number |-> i, comment |-> comments[Len(comments) + 1 - i]]]

\* _format_comment: the line with the aggregate, then one section per
\* comment, headed "## Rationale i+1" for the comment at index i.
_format_comment(aggregate, comments) ==
    <<aggregate>> \o [i \in 1..Len(comments) |->
                        [number |-> i, comment |-> comments[i]]]

\* Mutant: a failing run takes its siblings with it.
FinishRun_CancelsSiblings(q, i, o) ==
    /\ run_task' = [run_task EXCEPT ![q] = [j \in RunsOf(q) |->
           IF j = i THEN "done"
           ELSE IF o.status = "raised" /\ run_task[q][j] = "started"
           THEN "cancelled" ELSE run_task[q][j]]]
    /\ run_outcome' = [run_outcome EXCEPT ![q][i] = o]
    /\ gather_exception' =
           IF o.status = "raised" /\ gather_exception[q] = NoValue
           THEN [gather_exception EXCEPT ![q] = o]
           ELSE gather_exception
    /\ UNCHANGED out_of_order

\* The run task finishes with outcome o; a first failure becomes the
\* exception of the gather the forecast awaits.  The history flag notes a
\* run that returns while an earlier-launched run is still going, for as
\* long as no run of the question has failed.
FinishRun(q, i, o) ==
    /\ run_task' = [run_task EXCEPT ![q][i] = "done"]
    /\ run_outcome' = [run_outcome EXCEPT ![q][i] = o]
    /\ gather_exception' =
           IF o.status = "raised" /\ gather_exception[q] = NoValue
           THEN [gather_exception EXCEPT ![q] = o]
           ELSE gather_exception
    /\ out_of_order' = [out_of_order EXCEPT ![q] =
           /\ o.status = "returned"
           /\ gather_exception[q] = NoValue
           /\ @ \/ \E j \in 1..(i - 1) : run_task[q][j] # "done"]

\* The run's request is answered: the call leaves the gate and the run goes
\* on, without suspending, through extraction and synthesis.  The API client
\* raises ValueError on an empty answer.
RunCallReturns(q, i) ==
    /\ i \in RunsOf(q)
    /\ call_pc[<<q, i>>] = "calling"
    /\ SetGate(release(Gate, <<q, i>>))
    /\ attempt' = [attempt EXCEPT ![<<q, i>>] = 0]
    /\ \/ FinishRun(q, i, Returned(<<q, i>>))
       \/ \E e \in SynthesisErrors(q) : FinishRun(q, i, Error(e, i))
       \/ /\ ~use_local_llm_for_forecasting
          /\ FinishRun(q, i, Error("ValueError", i))
    /\ UNCHANGED <<question_task, research_step, summary_report,
                   forecast, posted, post_calls, my_forecasts, forecast_summaries, batch>>
    /\ BotFrame

\* The run's request fails.  The local client tries again inside the gate
\* until local_llm_max_retries requests have failed and then raises
\* ValueError outside it; the API client's exception leaves the gate at once.
RunCallFails(q, i) ==
    /\ i \in RunsOf(q)
    /\ call_pc[<<q, i>>] = "calling"
    /\ IF use_local_llm_for_forecasting /\ attempt[<<q, i>>] < local_llm_max_retries
       THEN /\ attempt' = [attempt EXCEPT ![<<q, i>>] = @ + 1]
            /\ UNCHANGED <<semaphore_value, semaphore_waiters, call_pc,
                           run_task, run_outcome, gather_exception, out_of_order>>
       ELSE /\ SetGate(release(Gate, <<q, i>>))
            /\ attempt' = [attempt EXCEPT ![<<q, i>>] = 0]
            /\ FinishRun(q, i, Error(IF use_local_llm_for_forecasting
                                     THEN "ValueError" ELSE "APIError", i))
    /\ UNCHANGED <<question_task, research_step, summary_report,
                   forecast, posted, post_calls, my_forecasts, forecast_summaries, batch>>
    /\ BotFrame

\* forecast resumes with an exception from the gather: it raises it, and
\* forecast_question logs and re-raises.  Runs still going are left alone.
ForecastRaises(q) ==
    /\ question_task[q] = "gathering"
    /\ LET r == gather(run_outcome[q], gather_exception[q])
       IN  /\ r.status = "raised"
           /\ forecast' = [forecast EXCEPT ![q] = r]
           /\ forecast_summaries' = [forecast_summaries EXCEPT ![q] = r]
    /\ question_task' = [question_task EXCEPT ![q] = "done"]
    /\ UNCHANGED <<semaphore_value, semaphore_waiters, call_pc, attempt,
                   research_step, summary_report, run_task,
                   run_outcome, gather_exception, out_of_order, posted,
                   post_calls, my_forecasts, batch>>
    /\ BotFrame

\* Mutant: the comment is sent although the prediction was refused.
Submit_CommentAnyway(q) ==
    \/ /\ posted' = [posted EXCEPT ![q] = "nothing"]
       /\ post_calls' = [post_calls EXCEPT ![q] = <<"post_prediction", "post_comment">>]
       /\ forecast_summaries' =
              [forecast_summaries EXCEPT ![q] = Error("RuntimeError", 0)]
    \/ /\ posted' = [posted EXCEPT ![q] = "prediction and comment"]
       /\ post_calls' = [post_calls EXCEPT ![q] = <<"post_prediction", "post_comment">>]
       /\ forecast_summaries' =
              [forecast_summaries EXCEPT ![q] = Returned("posted")]

\* The submission of forecast_question: post_prediction, which raises
\* RuntimeError when the server refuses the prediction, and then
\* post_comment, which raises RuntimeError when it refuses the comment.
Submit(q) ==
    \/ /\ posted' = [posted EXCEPT ![q] = "nothing"]
       /\ post_calls' = [post_calls EXCEPT ![q] = <<"post_prediction">>]
       /\ forecast_summaries' =
              [forecast_summaries EXCEPT ![q] = Error("RuntimeError", 0)]
    \/ /\ posted' = [posted EXCEPT ![q] = "prediction"]
       /\ post_calls' = [post_calls EXCEPT ![q] = <<"post_prediction", "post_comment">>]
       /\ forecast_summaries' =
              [forecast_summaries EXCEPT ![q] = Error("RuntimeError", 0)]
    \/ /\ posted' = [posted EXCEPT ![q] = "prediction and comment"]
       /\ post_calls' = [post_calls EXCEPT ![q] = <<"post_prediction", "post_comment">>]
       /\ forecast_summaries' =
              [forecast_summaries EXCEPT ![q] = Returned("posted")]

\* forecast resumes with the runs' results, aggregates them and returns;
\* forecast_question then submits when submit_prediction is set: the
\* prediction first, the comment only after the prediction was accepted.
ForecastReturns(q) ==
    /\ question_task[q] = "gathering"
    /\ LET r == gather(run_outcome[q], gather_exception[q])
       IN  /\ r.status = "returned"
           /\ forecast' = [forecast EXCEPT ![q] = r]
           /\ final_comment' = [final_comment EXCEPT ![q] =
                  _format_comment("aggregate", r.value)]
           /\ IF submit_prediction
              THEN Submit(q)
              ELSE /\ forecast_summaries' =
                          [forecast_summaries EXCEPT ![q] = Returned("forecast")]
                   /\ UNCHANGED <<posted, post_calls>>
    /\ question_task' = [question_task EXCEPT ![q] = "done"]
    /\ UNCHANGED <<semaphore_value, semaphore_waiters, call_pc, attempt,
                   research_step, summary_report, run_task,
                   run_outcome, gather_exception, out_of_order, batch,
                   my_forecasts>>
    /\ ConfigFrame /\ UNCHANGED printed

\* The block printed for a question whose task raised: its ids, the
\* exception's class name and the exception's text.
ErrorMessage(q, exception) ==
    [question_id |-> q, class_name |-> exception.error.name,
     text |-> exception.error]

\* Mutant: a gather without return_exceptions, which hands the first
\* exception of a question task to forecast_questions at once.
SummariseBatch_FirstException ==
    /\ batch = "gathering"
    /\ \/ /\ \A q \in QuestionIds : question_task[q] = "done"
          /\ \A q \in QuestionIds : forecast_summaries[q].status = "returned"
          /\ batch' = "returned"
          /\ printed' = [q \in QuestionIds |-> forecast_summaries[q].value]
       \/ /\ \E q \in QuestionIds : forecast_summaries[q].status = "raised"
          /\ batch' = "raised"
          /\ UNCHANGED printed
    /\ UNCHANGED <<semaphore_value, semaphore_waiters, call_pc, attempt,
                   question_task, research_step, summary_report,
                   run_task, run_outcome, gather_exception, out_of_order,
                   final_comment, forecast, posted,
                   post_calls, my_forecasts, forecast_summaries>>
    /\ ConfigFrame

\* forecast_questions resumes once every question task has finished: it
\* prints each question's summary or error block, in batch order, and then
\* raises RuntimeError if any task raised.
SummariseBatch ==
    /\ batch = "gathering"
    /\ \A q \in QuestionIds : question_task[q] = "done"
    /\ printed' = [q \in QuestionIds |->
           IF forecast_summaries[q].status = "raised"
           THEN ErrorMessage(q, forecast_summaries[q])
           ELSE forecast_summaries[q].value]
    /\ batch' = IF \E q \in QuestionIds : forecast_summaries[q].status = "raised"
                THEN "raised" ELSE "returned"
    /\ UNCHANGED <<semaphore_value, semaphore_waiters, call_pc, attempt,
                   question_task, research_step, summary_report,
                   run_task, run_outcome, gather_exception, out_of_order,
                   final_comment, forecast, posted,
                   post_calls, my_forecasts, forecast_summaries>>
    /\ ConfigFrame

\* main returns and asyncio.run cancels the run tasks still alive: a call in
\* the gate leaves it through __aexit__, a waiting call gives up its place.
Shutdown ==
    /\ batch \in {"raised", "returned"}
    /\ batch' = "closed"
    /\ semaphore_value' =
           semaphore_value + Cardinality({c \in DOMAIN call_pc : call_pc[c] = "calling"})
    /\ semaphore_waiters' = <<>>
    /\ call_pc' = [c \in DOMAIN call_pc |-> "idle"]
    /\ attempt' = [c \in DOMAIN call_pc |-> 0]
    /\ run_task' = [q \in QuestionIds |-> [i \in RunsOf(q) |->
                       IF run_task[q][i] \in {"created", "started"}
                       THEN "cancelled" ELSE run_task[q][i]]]
    /\ UNCHANGED <<question_task, research_step, summary_report,
                   run_outcome, gather_exception, out_of_order, forecast, posted,
                   post_calls, my_forecasts,
                   forecast_summaries>>
    /\ BotFrame

BotNext ==
    \/ ForecastQuestionsStart
    \/ \E q \in QuestionIds : ResearchStepReturns(q)
    \/ \E q \in QuestionIds : ResearchStepRaises(q)
    \/ \E q \in QuestionIds : RunsStart(q)
    \/ \E q \in QuestionIds : \E i \in RunsOf(q) : RunCallReturns(q, i)
    \/ \E q \in QuestionIds : \E i \in RunsOf(q) : RunCallFails(q, i)
    \/ \E q \in QuestionIds : ForecastRaises(q)
    \/ \E q \in QuestionIds : ForecastReturns(q)
    \/ SummariseBatch
    \/ Shutdown

(***************************************************************************)
(* LocalLLMClient.call, request by request.  The runs of the batch call    *)
(* the local client against the shared gate; responses keeps, per call,    *)
(* what _post did on each request the call has made.  A run ends here with *)
(* the outcome of its call.                                                *)
(***************************************************************************)
RunCalls == {c \in Calls : c[2] > 0}
\* What a request can bring: the content of the server's answer to the k-th
\* request of call c, or an exception (no answer, or a malformed one).
Answer(c, k) == [response |-> "answer", call |-> c, request |-> k]
RequestError == [response |-> "error"]

\* The runs of every question have been created with the local client; no
\* request has been made.
LocalInit ==
    /\ MCIdle
    /\ NumIdle
    /\ ExtIdle
    /\ AggIdle
    /\ use_local_llm_for_forecasting = TRUE
    /\ research_provider = "none"
    /\ submit_prediction = FALSE
    /\ skip_previously_forecasted_questions = FALSE
    /\ semaphore_value = concurrent_requests_limit
    /\ semaphore_waiters = <<>>
    /\ call_pc = [c \in Calls |-> "idle"]
    /\ attempt = [c \in Calls |-> 0]
    /\ question_task = [q \in QuestionIds |-> "gathering"]
    /\ research_step = [q \in QuestionIds |-> 0]
    /\ summary_report = [q \in QuestionIds |-> "report"]
    /\ run_task = [q \in QuestionIds |-> [i \in Runs |-> "created"]]
    /\ run_outcome = [q \in QuestionIds |-> [i \in Runs |-> NoValue]]
    /\ gather_exception = [q \in QuestionIds |-> NoValue]
    /\ out_of_order = [q \in QuestionIds |-> FALSE]
    /\ final_comment = [q \in QuestionIds |-> None]
    /\ forecast = [q \in QuestionIds |-> NoValue]
    /\ posted = [q \in QuestionIds |-> "nothing"]
    /\ post_calls = [q \in QuestionIds |-> <<>>]
    /\ my_forecasts = [q \in QuestionIds |-> Returned(FALSE)]
    /\ forecast_summaries = [q \in QuestionIds |-> NoValue]
    /\ printed = <<>>
    /\ batch = "gathering"
    /\ responses = [c \in RunCalls |-> <<>>]

LocalFrame ==
    UNCHANGED <<use_local_llm_for_forecasting, research_provider, submit_prediction,
                skip_previously_forecasted_questions, question_task, research_step,
                summary_report, forecast, posted,
                post_calls, my_forecasts, forecast_summaries, printed,
                final_comment, batch, mcVars, numVars, extVars, aggVars>>

\* Lines 284-286 for the runs of question q: each call reaches
\* `async with self.rate_limiter`, in launch order.
LocalCallsStart(q) ==
    /\ \A i \in Runs : run_task[q][i] = "created"
    /\ run_task' = [run_task EXCEPT ![q] = [i \in Runs |-> "started"]]
    /\ SetGate(StartRuns(Gate, q, 1))
    /\ attempt' = [c \in Calls |-> IF c[1] = q /\ c[2] > 0 THEN 1 ELSE attempt[c]]
    /\ UNCHANGED <<run_outcome, gather_exception, out_of_order, responses>>
    /\ LocalFrame

\* Lines 289-302: the request is answered and the answer is well formed;
\* call returns it, leaving the gate.
LocalPostReturns(q, i) ==
    /\ call_pc[<<q, i>>] = "calling"
    /\ LET answer == Answer(<<q, i>>, attempt[<<q, i>>])
       IN  /\ responses' = [responses EXCEPT ![<<q, i>>] = Append(@, answer)]
           /\ FinishRun(q, i, Returned(answer))
    /\ SetGate(release(Gate, <<q, i>>))
    /\ attempt' = [attempt EXCEPT ![<<q, i>>] = 0]
    /\ LocalFrame

\* Mutant: the first failed request is raised at once, as the API client
\* does.
LocalPostFails_NoRetry(q, i) ==
    /\ call_pc[<<q, i>>] = "calling"
    /\ responses' = [responses EXCEPT ![<<q, i>>] = Append(@, RequestError)]
    /\ SetGate(release(Gate, <<q, i>>))
    /\ attempt' = [attempt EXCEPT ![<<q, i>>] = 0]
    /\ FinishRun(q, i, Error("ValueError", i))
    /\ LocalFrame

\* Lines 304-313: the request raises or its answer is malformed.  The loop
\* goes on to the next request inside the gate; after the last one the gate
\* is left and ValueError is raised.
LocalPostFails(q, i) ==
    /\ call_pc[<<q, i>>] = "calling"
    /\ responses' = [responses EXCEPT ![<<q, i>>] = Append(@, RequestError)]
    /\ IF attempt[<<q, i>>] < local_llm_max_retries
       THEN /\ attempt' = [attempt EXCEPT ![<<q, i>>] = @ + 1]
            /\ UNCHANGED <<semaphore_value, semaphore_waiters, call_pc,
                           run_task, run_outcome, gather_exception, out_of_order>>
       ELSE /\ SetGate(release(Gate, <<q, i>>))
            /\ attempt' = [attempt EXCEPT ![<<q, i>>] = 0]
            /\ FinishRun(q, i, Error("ValueError", i))
    /\ LocalFrame

LocalNext ==
    \/ \E q \in QuestionIds : LocalCallsStart(q)
    \/ \E q \in QuestionIds, i \in Runs : LocalPostReturns(q, i)
    \/ \E q \in QuestionIds, i \in Runs : LocalPostFails(q, i)

(***************************************************************************)
(* The batch under every admissible limit of the gate, with the event loop *)
(* running every task that is ready and every admitted request ending.     *)
(* Each forecast launches LiveRuns runs.                                   *)
(***************************************************************************)
LiveRuns == 3
LiveRunSet == 1..LiveRuns
LiveCalls == {<<q, i>> : q \in QuestionIds, i \in 0..LiveRuns}

\* As BotInit, with concurrent_limit configured to any value from 1 up to
\* the bound, num_runs = LiveRuns, the API client and the gated research
\* provider.
LiveInit ==
    /\ LocalIdle
    /\ MCIdle
    /\ NumIdle
    /\ ExtIdle
    /\ AggIdle
    /\ use_local_llm_for_forecasting = FALSE
    /\ research_provider = "LLMResearchProvider"
    /\ submit_prediction = TRUE
    /\ skip_previously_forecasted_questions = TRUE
    /\ semaphore_value \in 1..concurrent_requests_limit
    /\ semaphore_waiters = <<>>
    /\ call_pc = [c \in LiveCalls |-> "idle"]
    /\ attempt = [c \in LiveCalls |-> 0]
    /\ question_task = [q \in QuestionIds |-> "created"]
    /\ research_step = [q \in QuestionIds |-> 0]
    /\ summary_report = [q \in QuestionIds |-> "none"]
    /\ run_task = [q \in QuestionIds |-> [i \in LiveRunSet |-> "unborn"]]
    /\ run_outcome = [q \in QuestionIds |-> [i \in LiveRunSet |-> NoValue]]
    /\ gather_exception = [q \in QuestionIds |-> NoValue]
    /\ out_of_order = [q \in QuestionIds |-> FALSE]
    /\ final_comment = [q \in QuestionIds |-> None]
    /\ forecast = [q \in QuestionIds |-> NoValue]
    /\ posted = [q \in QuestionIds |-> "nothing"]
    /\ post_calls = [q \in QuestionIds |-> <<>>]
    /\ my_forecasts = [q \in QuestionIds |-> NoValue]
    /\ forecast_summaries = [q \in QuestionIds |-> NoValue]
    /\ printed = <<>>
    /\ batch = "created"

\* A run's request is answered with text the run can use.  What a run does
\* with an answer happens after the call has left the gate, and a run that
\* ends in an exception is there through RunCallFails.
LiveRunCallReturns(q, i) ==
    /\ RunCallReturns(q, i)
    /\ run_outcome'[q][i].status = "returned"

LiveNext ==
    \/ ForecastQuestionsStart
    \/ \E q \in QuestionIds : ResearchStepReturns(q)
    \/ \E q \in QuestionIds : ResearchStepRaises(q)
    \/ \E q \in QuestionIds : RunsStart(q)
    \/ \E q \in QuestionIds, i \in LiveRunSet : LiveRunCallReturns(q, i)
    \/ \E q \in QuestionIds, i \in LiveRunSet : RunCallFails(q, i)
    \/ \E q \in QuestionIds : ForecastRaises(q)
    \/ \E q \in QuestionIds : ForecastReturns(q)
    \/ SummariseBatch
    \/ Shutdown

(***************************************************************************)
(* The batch under every setting of submit_prediction and                  *)
(* skip_previously_forecasted_questions.                                   *)
(***************************************************************************)
\* As BotInit with the API client, the two flags of bot_config taking
\* either value.
SubmitInit ==
    /\ LocalIdle
    /\ MCIdle
    /\ NumIdle
    /\ ExtIdle
    /\ AggIdle
    /\ use_local_llm_for_forecasting = FALSE
    /\ research_provider \in ResearchProviders
    /\ submit_prediction \in BOOLEAN
    /\ skip_previously_forecasted_questions \in BOOLEAN
    /\ semaphore_value = concurrent_requests_limit
    /\ semaphore_waiters = <<>>
    /\ call_pc = [c \in Calls |-> "idle"]
    /\ attempt = [c \in Calls |-> 0]
    /\ question_task = [q \in QuestionIds |-> "created"]
    /\ research_step = [q \in QuestionIds |-> 0]
    /\ summary_report = [q \in QuestionIds |-> "none"]
    /\ run_task = [q \in QuestionIds |-> [i \in Runs |-> "unborn"]]
    /\ run_outcome = [q \in QuestionIds |-> [i \in Runs |-> NoValue]]
    /\ gather_exception = [q \in QuestionIds |-> NoValue]
    /\ out_of_order = [q \in QuestionIds |-> FALSE]
    /\ final_comment = [q \in QuestionIds |-> None]
    /\ forecast = [q \in QuestionIds |-> NoValue]
    /\ posted = [q \in QuestionIds |-> "nothing"]
    /\ post_calls = [q \in QuestionIds |-> <<>>]
    /\ my_forecasts = [q \in QuestionIds |-> NoValue]
    /\ forecast_summaries = [q \in QuestionIds |-> NoValue]
    /\ printed = <<>>
    /\ batch = "created"

vars == <<mcVars, numVars, extVars, aggVars, botVars, localVars>>

SpecMC == MCInit /\ [][MCGenerate]_vars

SpecCDF == NumInit /\ [][NumNext]_vars

SpecExt == ExtInit /\ [][ExtNext]_vars

SpecAgg == AggInit /\ [][AggNext]_vars

SpecRun == BotInit /\ [][BotNext]_vars

SpecPct == PctInit /\ [][ExtractPercentiles]_vars

SpecLocal == LocalInit /\ [][LocalNext]_vars

SpecSubmit == SubmitInit /\ [][BotNext]_vars

\* The event loop runs every task that is ready, and every request that was
\* admitted ends: it is answered or it fails.
LoopFairness ==
    /\ WF_vars(ForecastQuestionsStart)
    /\ WF_vars(SummariseBatch)
    /\ WF_vars(Shutdown)
    /\ \A q \in QuestionIds :
          /\ WF_vars(RunsStart(q))
          /\ WF_vars(ForecastRaises(q))
          /\ WF_vars(ForecastReturns(q))
          /\ WF_vars(ResearchStepReturns(q) \/ ResearchStepRaises(q))
          /\ \A i \in LiveRunSet :
                WF_vars(LiveRunCallReturns(q, i) \/ RunCallFails(q, i))

SpecLive == LiveInit /\ [][LiveNext]_vars /\ LoopFairness

(***************************************************************************)
(* Claims.                                                                 *)
(***************************************************************************)
AllPositive(s) == \A i \in 1..Len(s) : RLt(R(0), s[i])
DistValues(d) == {d[l] : l \in DOMAIN d}
RECURSIVE RSumSet(_, _)
RSumSet(d, ls) ==
    IF ls = {} THEN R(0)
    ELSE LET l == CHOOSE x \in ls : TRUE IN RAdd(d[l], RSumSet(d, ls \ {l}))
DistSum(d) == RSumSet(d, DOMAIN d)

MCCasePositive ==
    /\ mc_pc = "returned"
    /\ Len(options) = Len(option_probabilities)
    /\ AllPositive(option_probabilities)

\* C1: for every list of positive raw scores, one per option label, the
\* normalization returns probabilities that sum to exactly 1 and each of
\* which lies in [0.01, 0.99].
C1_SumOneAndClamped ==
    MCCasePositive =>
        /\ probability_yes_per_category.status = "returned"
        /\ DistSum(probability_yes_per_category.value) = R(1)
        /\ \A v \in DistValues(probability_yes_per_category.value) :
               RLe(ClampLow, v) /\ RLe(v, ClampHigh)

NonDecreasing(xs) == \A i \in 1..(Len(xs) - 1) : RLe(xs[i], xs[i + 1])
\* A valid percentile map: a larger percentile never states a smaller value.
ValidPercentiles(pv) == \A a, b \in DOMAIN pv : a < b => RLe(pv[a], pv[b])
FirstRunDone == num_pc /= "idle"
Linear == question_details.zero_point = None
BothClosed == ~question_details.open_lower_bound /\ ~question_details.open_upper_bound

\* C2: for every valid percentile map (values non-decreasing in the percentile
\* key) and every combination of open and closed bounds, on the linear scale,
\* the synthesized CDF is non-decreasing from each grid index to the next.
C2_ValidInputMonotoneCdf ==
    (FirstRunDone /\ Linear /\ ValidPercentiles(extracted)) => NonDecreasing(cdfs[1])

\* A valid map of two stated percentiles next to an open bound has been
\* synthesized into a CDF that rises.
C2_Witness ==
    /\ FirstRunDone /\ Linear /\ ValidPercentiles(extracted)
    /\ Cardinality(DOMAIN extracted) >= 2
    /\ question_details.open_upper_bound
    /\ RLt(cdfs[1][1], cdfs[1][Len(cdfs[1])])

\* C3: every synthesized CDF has exactly cdf_size entries, 201 for a numeric
\* question and inbound_outcome_count + 1 for a discrete one, and so has the
\* aggregated median CDF that forecast returns.
ExpectedCdfLength ==
    IF question_details.type = "discrete"
    THEN question_details.inbound_outcome_count + 1
    ELSE 201
C3_CdfLength ==
    /\ \A r \in 1..Len(cdfs) : Len(cdfs[r]) = ExpectedCdfLength
    /\ median_cdf.status = "returned" => Len(median_cdf.value) = ExpectedCdfLength

\* A forecast of two runs on a discrete question has returned its median CDF.
C3_Witness ==
    /\ median_cdf.status = "returned"
    /\ num_runs = 2
    /\ question_details.type = "discrete"
    /\ Len(median_cdf.value) = OutcomeCount + 1

\* C4: with both bounds closed, on the linear scale, the first CDF entry is
\* cumulative probability 0 and the last is 1, whatever the model stated.
C4_ClosedBoundsAnchored ==
    (FirstRunDone /\ Linear /\ BothClosed) =>
        /\ cdfs[1][1] = R(0)
        /\ cdfs[1][Len(cdfs[1])] = R(1)

\* A map that itself states percentiles 0 and 100 has been synthesized under
\* closed bounds.
C4_Witness ==
    /\ FirstRunDone /\ Linear /\ BothClosed
    /\ {0, 100} \subseteq DOMAIN extracted
    /\ cdfs[1][1] = R(0)

\* Positions of the percent signs that directly follow a digit.
PercentEnds(text) == {k \in 2..Len(text) : text[k] = "%" /\ IsDigit(text[k - 1])}
\* The integer written by the unbroken digits that end just before position k.
IntegerBefore(text, k) ==
    LET start == SetMin({i \in 1..(k - 1) : \A j \in i..(k - 1) : IsDigit(text[j])})
    IN  ParseInt(SubSeq(text, start, k - 1))
ClampPercent(n) == IF n < 1 THEN 1 ELSE IF n > 99 THEN 99 ELSE n
ProbabilityExtracted == extraction.fn = "extract_probability_percentage"

\* C6: a text with at least one integer directly followed by a percent sign
\* yields the LAST such integer, clamped to [1, 99] and divided by 100, hence a
\* value in [0.01, 0.99]; a text with no such match raises and yields no value.
C6_LastPercentageClamped ==
    ProbabilityExtracted =>
        IF PercentEnds(forecast_text) /= {}
        THEN /\ extraction.result.status = "returned"
             /\ extraction.result.value =
                    Frac(ClampPercent(IntegerBefore(forecast_text,
                                                    SetMax(PercentEnds(forecast_text)))), 100)
             /\ RLe(Frac(1, 100), extraction.result.value)
             /\ RLe(extraction.result.value, Frac(99, 100))
        ELSE extraction.result = Raised("ValueError")

\* A text with two percentages, the earlier one different from the last, has
\* been extracted.
C6_Witness ==
    /\ ProbabilityExtracted
    /\ Cardinality(PercentEnds(forecast_text)) = 2
    /\ extraction.result = Returned(Frac(7, 100))
    /\ forecast_text[1] = "0"

\* The lines of the text that bear a number: those with a digit in them.
NumericLines(text) ==
    SelectSeq(SplitLines(text), LAMBDA line : \E i \in 1..Len(line) : IsDigit(line[i]))
LastOf(xs) == xs[Len(xs)]
OptionsExtracted == extraction.fn = "extract_option_probabilities"

\* C7: for every text and option count the extractor returns exactly the last
\* option_count values of the per-line last numbers, in document order, and
\* raises when fewer than option_count lines bear a number.
C7_LastOptionCountValues ==
    OptionsExtracted =>
        LET lines == NumericLines(forecast_text)
            n == extraction.num_options
        IN  IF Len(lines) >= n
            THEN /\ extraction.result.status = "returned"
                 /\ Len(extraction.result.value) = n
                 /\ \A k \in 1..n :
                        extraction.result.value[k] =
                            LastOf(FindNumbers(lines[Len(lines) - n + k], 1))
            ELSE extraction.result = Raised("ValueError")

\* Three numeric lines, two values asked for: the first line's number is left
\* out.
C7_Witness ==
    /\ OptionsExtracted
    /\ Len(NumericLines(forecast_text)) = 3
    /\ extraction.num_options = 2
    /\ extraction.result = Returned(<<R(0), R(7)>>)
    /\ forecast_text[1] = "7"

Aggregated == aggregated.status = "returned"

\* C5: aggregation is commutative: the same run results in any other order give
\* the identical binary median, numeric elementwise-median CDF and
\* multiple-choice per-label mean.
C5_AggregationCommutes == Aggregated => aggregated_permuted = aggregated

\* Three distinct run results have been aggregated in an order that moves them.
C5_Witness ==
    /\ Aggregated
    /\ kind = "multiple_choice"
    /\ Len(run_results) = 3
    /\ run_results[1] /= run_results[2] /\ run_results[2] /= run_results[3]
    /\ permutation = <<3, 1, 2>>
    /\ aggregated_permuted = aggregated

\* The k-th smallest of the run probabilities, without sorting them.
CountRuns(P(_)) == Cardinality({i \in 1..Len(run_results) : P(run_results[i])})
KthSmallest(k) ==
    CHOOSE x \in {run_results[i] : i \in 1..Len(run_results)} :
        /\ CountRuns(LAMBDA y : RLt(y, x)) < k
        /\ k <= CountRuns(LAMBDA y : RLe(y, x))

\* C10: the binary aggregate is the median of the N run probabilities, the
\* middle value for odd N and the average of the two middle values for even N;
\* it lies between the smallest and the largest run probability, hence in
\* [0.01, 0.99]; runs 0.73, 0.65, 0.80 give 0.73.
C10_BinaryMedian ==
    (Aggregated /\ kind = "binary") =>
        LET n == Len(run_results)
            m == aggregated.value
        IN  /\ IF n % 2 = 1
               THEN m = KthSmallest((n + 1) \div 2)
               ELSE m = RDiv(RAdd(KthSmallest(n \div 2), KthSmallest(n \div 2 + 1)), R(2))
            /\ \E i \in 1..n : RLe(run_results[i], m)
            /\ \E i \in 1..n : RLe(m, run_results[i])
            /\ RLe(Frac(1, 100), m) /\ RLe(m, Frac(99, 100))
            /\ run_results = <<Frac(73, 100), Frac(65, 100), Frac(80, 100)>>
                   => m = Frac(73, 100)

\* The runs 0.73, 0.65, 0.80 have been aggregated to 0.73.
C10_Witness ==
    /\ Aggregated /\ kind = "binary"
    /\ run_results = <<Frac(73, 100), Frac(65, 100), Frac(80, 100)>>
    /\ aggregated.value = Frac(73, 100)

(***************************************************************************)
(* Claims about the facade and the gate, checked under SpecRun.            *)
(***************************************************************************)
RunFailed(q) == \E i \in Runs : run_outcome[q][i].status = "raised"

\* C8: forecast returns an aggregate only when every one of its N runs
\* returned, and the aggregate is built from exactly those N results in
\* launch order; a forecast that ends after a run failed ends by raising an
\* error one of its failed runs raised.
C8_AllOrNothing ==
    \A q \in QuestionIds :
        /\ forecast[q].status = "returned" =>
               /\ \A i \in Runs : run_outcome[q][i].status = "returned"
               /\ forecast[q].value = [i \in Runs |-> run_outcome[q][i].value]
        /\ forecast[q].status = "raised" =>
               \E i \in Runs : run_outcome[q][i] = forecast[q]
        /\ (question_task[q] = "done" /\ RunFailed(q)) =>
               forecast[q].status = "raised"

\* A forecast has raised the error of a failed run although a sibling run
\* returned a result.
C8_Witness ==
    \E q \in QuestionIds : \E i, j \in Runs :
        /\ forecast[q].status = "raised"
        /\ run_outcome[q][i] = forecast[q]
        /\ run_outcome[q][j].status = "returned"

\* Calls holding a permit: admitted by the gate and not yet out of it.
InFlight == {c \in Calls : call_pc[c] = "calling"}

\* C9: the calls in flight, research and run calls of both clients
\* together, never outnumber concurrent_limit, and each holds exactly one
\* permit: the free permits are concurrent_limit less the calls in flight,
\* so all permits are back once no call is in flight.
C9_AdmissionGate ==
    /\ Cardinality(InFlight) <= concurrent_requests_limit
    /\ semaphore_value = concurrent_requests_limit - Cardinality(InFlight)
    /\ \A k \in 1..Len(semaphore_waiters) : call_pc[semaphore_waiters[k]] = "waiting"

\* The gate is full with a research call of the API client and a run call
\* of the local client, a third call waits, and an earlier call has left
\* the gate by raising.
C9_Witness ==
    /\ use_local_llm_for_forecasting
    /\ Cardinality(InFlight) = concurrent_requests_limit
    /\ \E c \in InFlight : c[2] = 0
    /\ \E c \in InFlight : c[2] > 0
    /\ semaphore_waiters # <<>>
    /\ \E q \in QuestionIds : summary_report[q] = "placeholder"

(***************************************************************************)
(* Claims about multiple-choice aggregation and normalization.             *)
(***************************************************************************)
AggregatedMC == Aggregated /\ kind = "multiple_choice"

\* The sum of label o's probabilities over the first n runs.
RECURSIVE LabelTotal(_, _)
LabelTotal(o, n) ==
    IF n = 0 THEN R(0) ELSE RAdd(LabelTotal(o, n - 1), run_results[n][o])

\* C11: the multiple-choice aggregate has exactly the question's option
\* labels, gives each label the arithmetic mean of its N per-run
\* probabilities, and sums to 1 whenever every run's distribution sums to 1;
\* no re-normalization is applied.
C11_MeanPerLabelSumsToOne ==
    AggregatedMC =>
        LET n == Len(run_results)
            avg == aggregated.value
        IN  /\ DOMAIN avg = {AggOptions[i] : i \in 1..Len(AggOptions)}
            /\ \A o \in DOMAIN avg : RMul(avg[o], R(n)) = LabelTotal(o, n)
            /\ (\A r \in 1..n : DistSum(run_results[r]) = R(1)) => DistSum(avg) = R(1)

\* Three runs that disagree on every label have been averaged into a
\* distribution none of them stated.
C11_Witness ==
    /\ AggregatedMC
    /\ Len(run_results) = 3
    /\ \A r \in 1..3 : DistSum(run_results[r]) = R(1)
    /\ \A r \in 1..3 : aggregated.value # run_results[r]
    /\ run_results[1]["A"] # run_results[2]["A"]
    /\ DistSum(aggregated.value) = R(1)

MCReturnedCall == mc_pc = "returned"

\* The raw scores' total and each score's share of it.
ScoreTotal == RSum(option_probabilities)
Share(i) == RDiv(option_probabilities[i], ScoreTotal)

\* Every score is between 1% and 99% of a non-zero total.
SharesWithinClamp ==
    /\ Len(options) = Len(option_probabilities)
    /\ ~RIsZero(ScoreTotal)
    /\ \A i \in 1..Len(option_probabilities) :
           RLe(ClampLow, Share(i)) /\ RLe(Share(i), ClampHigh)

\* C12: when every raw score lies between 1% and 99% of the score total,
\* normalization returns for the i-th label exactly the i-th score divided
\* by the total, in input order; options A, B, C with scores 10, 10, 80
\* give A 0.1, B 0.1, C 0.8.
C12_SharesInInputOrder ==
    (MCReturnedCall /\ SharesWithinClamp) =>
        /\ probability_yes_per_category.status = "returned"
        /\ DOMAIN probability_yes_per_category.value =
               {options[i] : i \in 1..Len(options)}
        /\ \A i \in 1..Len(options) :
               probability_yes_per_category.value[options[i]] = Share(i)
        /\ (options = <<"A", "B", "C">>
            /\ option_probabilities = <<R(10), R(10), R(80)>>) =>
               probability_yes_per_category.value =
                   [l \in {"A", "B", "C"} |->
                       IF l = "C" THEN Frac(8, 10) ELSE Frac(1, 10)]

\* Options A, B, C with raw scores 10, 10, 80 have been normalized to
\* 0.1, 0.1, 0.8.
C12_Witness ==
    /\ MCReturnedCall
    /\ SharesWithinClamp
    /\ options = <<"A", "B", "C">>
    /\ option_probabilities = <<R(10), R(10), R(80)>>
    /\ probability_yes_per_category = Returned([l \in {"A", "B", "C"} |->
           IF l = "C" THEN Frac(8, 10) ELSE Frac(1, 10)])

ShapeMismatch == Len(options) # Len(option_probabilities)

\* C13: whenever the number of raw scores differs from the number of option
\* labels, normalization raises an error and returns no mapping, whether the
\* scores are too few or too many.
C13_ShapeMismatchRaises ==
    (MCReturnedCall /\ ShapeMismatch) =>
        /\ probability_yes_per_category.status = "raised"
        /\ probability_yes_per_category = Raised("ValueError")

\* Three labels were given only the two scores 10 and 80: the call has raised.
C13_Witness ==
    /\ MCReturnedCall
    /\ ShapeMismatch
    /\ Len(options) = 3
    /\ option_probabilities = <<R(10), R(80)>>
    /\ probability_yes_per_category.status = "raised"

\* The extracted score lists whose total is zero.
ZeroTotalScores == {s \in RunScores : RIsZero(RSum(s))}

\* Normalization raises on every score list of zero total.
ZeroTotalRaises ==
    \A s \in ZeroTotalScores :
        _generate_multiple_choice_forecast(AggOptions, s) = Raised("ZeroDivisionError")

\* A run of question q that failed in extraction or in normalization.
ExtractionFailed(q) == \E i \in Runs : run_outcome[q][i] = Error("ValueError", i)
NormalizationFailed(q) ==
    \E i \in Runs : run_outcome[q][i] = Error("ZeroDivisionError", i)

\* C14: raw option scores that sum to zero, all zero or of mixed sign, make
\* multiple-choice normalization raise an error instead of returning a
\* distribution, and a question one of whose runs failed that way ends as a
\* question one of whose runs failed in extraction ends: forecast raises the
\* error of a failed run, forecast_question raises it on, and nothing is
\* posted.
C14_ZeroTotalFailsTheForecast ==
    /\ ZeroTotalRaises
    /\ \A q \in QuestionIds :
           (question_task[q] = "done"
            /\ (NormalizationFailed(q) \/ ExtractionFailed(q))) =>
               /\ forecast[q].status = "raised"
               /\ forecast_summaries[q] = forecast[q]
               /\ posted[q] = "nothing"
    /\ \A q \in QuestionIds :
           NormalizationFailed(q) => IsMultipleChoice(q)

\* The multiple-choice question has ended by raising the ZeroDivisionError
\* of one run while its other run returned, and both score lists of zero
\* total, the all-zero one and the cancelling one, are among the inputs.
C14_Witness ==
    /\ <<R(0), R(0), R(0)>> \in ZeroTotalScores
    /\ <<R(10), R(-10), R(0)>> \in ZeroTotalScores
    /\ \E q \in QuestionIds : \E i, j \in Runs :
           /\ question_task[q] = "done"
           /\ run_outcome[q][i] = Error("ZeroDivisionError", i)
           /\ run_outcome[q][j].status = "returned"
           /\ forecast[q] = run_outcome[q][i]
           /\ forecast_summaries[q] = forecast[q]

(***************************************************************************)
(* Claims about research failures, batches and sibling runs.               *)
(***************************************************************************)
\* conduct_research has handed forecast a report or the placeholder.
Researched(q) == summary_report[q] \in {"report", "placeholder"}

\* Question q's research ended in the placeholder: no research call of q is
\* waiting or in flight any more, all N run tasks exist, they start
\* together, and each started run has issued its call.
PlaceholderAbsorbed(q) ==
    /\ question_task[q] \in {"gathering", "done"}
    /\ call_pc[<<q, 0>>] = "idle"
    /\ research_step[q] = 0
    /\ \A i \in Runs : run_task[q][i] # "unborn"
    /\ (question_task[q] = "done" \/ \E i \in Runs : run_task[q][i] # "created") =>
           \A i \in Runs : run_task[q][i] # "created"
    /\ \A i \in Runs : run_task[q][i] = "started" =>
           call_pc[<<q, i>>] \in {"waiting", "calling"}

\* Leaving research means going on to the runs with a report or placeholder.
ResearchReturns(q) ==
    (question_task[q] = "researching" /\ question_task'[q] # "researching") =>
        /\ Researched(q)'
        /\ question_task'[q] = "gathering"
        /\ run_task'[q] = [i \in Runs |-> "created"]
        /\ forecast_summaries'[q] = NoValue

\* C15: conduct_research never raises, with the LLM provider and with the
\* Perplexity provider: a question leaves research only with a report or the
\* placeholder, never with an error; after a failed step the placeholder is
\* returned, no further research step runs, and forecast still creates and
\* issues all N run calls.
C15_ResearchFailureAbsorbed ==
    /\ [](\A q \in QuestionIds :
            /\ question_task[q] = "researching" =>
                   (summary_report[q] = "none" /\ forecast_summaries[q] = NoValue)
            /\ question_task[q] = "gathering" => Researched(q)
            /\ forecast[q].status # "none" => Researched(q)
            /\ summary_report[q] = "placeholder" => PlaceholderAbsorbed(q))
    /\ [][\A q \in QuestionIds : ResearchReturns(q)]_vars

\* With the LLM provider a research step of the question failed, and its
\* forecast has returned the results of all N runs.
C15_Witness ==
    \E q \in QuestionIds :
        /\ research_provider = "LLMResearchProvider"
        /\ summary_report[q] = "placeholder"
        /\ forecast[q].status = "returned"
        /\ \A i \in Runs : run_outcome[q][i].status = "returned"

\* forecast_questions has ended, by returning or by raising.
BatchEnded == batch \in {"returned", "raised", "closed"}

Sections(comment) == Tail(comment)

\* C17: the comment a forecast returns starts with the line of the
\* aggregate, followed by exactly N sections; section i is numbered i and
\* holds the comment of the i-th launched run, whether or not the runs
\* returned in launch order.  A forecast that has not returned has no
\* comment.
C17_SectionsInLaunchOrder ==
    \A q \in QuestionIds :
        /\ forecast[q].status # "returned" => final_comment[q] = None
        /\ forecast[q].status = "returned" =>
              /\ Head(final_comment[q]) = "aggregate"
              /\ Len(Sections(final_comment[q])) = num_runs_per_question
              /\ \A i \in Runs :
                    /\ Sections(final_comment[q])[i].number = i
                    /\ Sections(final_comment[q])[i].comment = run_outcome[q][i].value
                    /\ run_outcome[q][i].value = <<q, i>>

\* A forecast returned its comment after its last-launched run had
\* returned while the first-launched run was still going.
C17_Witness ==
    \E q \in QuestionIds :
        /\ forecast[q].status = "returned"
        /\ out_of_order[q]
        /\ Len(final_comment[q]) = num_runs_per_question + 1
        /\ final_comment[q][2] = [number |-> 1, comment |-> <<q, 1>>]

\* In this step run i of question q has issued its call and not finished,
\* and another run of q fails or has failed before.
IssuedSibling(q, i) ==
    /\ run_task[q][i] = "started"
    /\ \E j \in Runs \ {i} : run_outcome'[q][j].status = "raised"

\* The sibling goes on: it keeps waiting or is admitted, or stays in flight.
SiblingGoesOn(q, i) ==
    /\ run_task'[q][i] = "started"
    /\ run_outcome'[q][i] = NoValue
    /\ call_pc'[<<q, i>>] \in {call_pc[<<q, i>>], "calling"}

\* The sibling's own call ends: it leaves the gate with its own result or
\* its own error.
SiblingEndsItself(q, i) ==
    /\ call_pc[<<q, i>>] = "calling"
    /\ call_pc'[<<q, i>>] = "idle"
    /\ run_task'[q][i] = "done"
    /\ \/ run_outcome'[q][i] = Returned(<<q, i>>)
       \/ /\ run_outcome'[q][i].status = "raised"
          /\ run_outcome'[q][i].error.run = i

\* The program ends: asyncio.run cancels what is left of the sibling.
SiblingCancelledAtShutdown(q, i) ==
    /\ batch \in {"returned", "raised"}
    /\ batch' = "closed"
    /\ question_task[q] = "done"
    /\ run_task'[q][i] = "cancelled"
    /\ call_pc'[<<q, i>>] = "idle"

\* The original reading: once a run of a forecast has failed, each issued
\* sibling is still going or has ended by itself; none is ever cancelled.
C18_SiblingsNeverCancelled ==
    \A q \in QuestionIds :
        (\E j \in Runs : run_outcome[q][j].status = "raised") =>
            \A i \in Runs : run_task[q][i] \in {"started", "done"}

\* C18 (amended): the failure of a run, and the failure of the forecast that
\* follows from it, cancel no issued sibling call: in every step an issued
\* sibling either goes on, or ends with its own result or error and leaves
\* the gate, or is cancelled by the shutdown of the program after the whole
\* batch has ended; every permit taken is given back in each case.
C18_NoCancellationPropagation ==
    [][/\ \A q \in QuestionIds : \A i \in Runs :
             IssuedSibling(q, i) =>
                 \/ SiblingGoesOn(q, i)
                 \/ SiblingEndsItself(q, i)
                 \/ SiblingCancelledAtShutdown(q, i)
       /\ semaphore_value' =
              concurrent_requests_limit - Cardinality({c \in Calls : call_pc'[c] = "calling"})
      ]_vars

\* The forecast has raised the error of its first run and the question has
\* ended, while the second run's call is still in flight with its permit.
C18_Witness ==
    \E q \in QuestionIds :
        /\ question_task[q] = "done"
        /\ forecast[q] = run_outcome[q][1]
        /\ forecast[q].status = "raised"
        /\ run_task[q][2] = "started"
        /\ call_pc[<<q, 2>>] = "calling"
        /\ semaphore_value < concurrent_requests_limit

(***************************************************************************)
(* Claims about percentile extraction.                                     *)
(***************************************************************************)
PercentilesExtracted == extraction.fn = "extract_percentiles"

\* The numbers of a line, and whether the line gives a (key, value) pair.
LineNumbers(line) == FindPercentileNumbers(line, 1)
YieldsPair(line) == IsPercentileLine(line) /\ Len(LineNumbers(line)) >= 2

\* The text after the first colon of a line that has one.
AfterFirstColon(line) ==
    SubSeq(line, SetMin({k \in 1..Len(line) : line[k] = ":"}) + 1, Len(line))

\* The answer is one qualifying line with a colon and two or more numbers.
OnePairLineWithColon ==
    /\ \A k \in 1..Len(forecast_text) : forecast_text[k] # "\n"
    /\ \E k \in 1..Len(forecast_text) : forecast_text[k] = ":"
    /\ YieldsPair(forecast_text)

\* C19: for a qualifying line with a colon and at least two numbers, the key
\* is the first number of the line and the value is the last number, made
\* negative exactly when the text after the line's first colon contains a
\* minus sign, whether the line has one colon or several.
C19_FirstColonDecidesSign ==
    (PercentilesExtracted /\ OnePairLineWithColon) =>
        LET numbers == LineNumbers(forecast_text)
            last_number == numbers[Len(numbers)]
        IN  extraction.result =
                Returned([key \in {RTrunc(numbers[1])} |->
                            IF HasMinus(AfterFirstColon(forecast_text))
                            THEN RNeg(RAbs(last_number))
                            ELSE last_number])

\* The lines of the answer that give a pair, by position.
PairLines ==
    LET lines == SplitLines(forecast_text)
    IN  {k \in 1..Len(lines) : YieldsPair(lines[k])}

LineKey(k) == RTrunc(LineNumbers(SplitLines(forecast_text)[k])[1])

\* C20: extraction raises exactly when no qualifying line has two or more
\* numbers; a qualifying line with one number is passed over; a returned
\* map is not empty, its keys are the keys of the lines with two or more
\* numbers, and each key has the value of the last such line stating it.
C20_FailsOnlyWithoutPairs ==
    PercentilesExtracted =>
        /\ extraction.result.status = "raised" <=> PairLines = {}
        /\ extraction.result.status = "raised" =>
               extraction.result = Raised("ValueError")
        /\ extraction.result.status = "returned" =>
               LET values == extraction.result.value IN
               /\ DOMAIN values # {}
               /\ DOMAIN values = {LineKey(k) : k \in PairLines}
               /\ \A key \in DOMAIN values :
                      LET k == SetMax({j \in PairLines : LineKey(j) = key})
                      IN  values[key] =
                              PercentilePairs(SplitLines(forecast_text)[k])[1].second_num

\* "Percentile 10: 5", then "Percentile 40", which has one number, then
\* "Percentile 10: -5": the map returned is {10: -5}.
C20_Witness ==
    /\ PercentilesExtracted
    /\ forecast_text =
           JoinLines(<< <<"Percentile", " ", "1", "0", ":", " ", "5">>,
                        <<"Percentile", " ", "4", "0">>,
                        <<"Percentile", " ", "1", "0", ":", " ", "-", "5">> >>)
    /\ PairLines = {1, 3}
    /\ extraction.result = Returned([key \in {10} |-> R(-5)])

(***************************************************************************)
(* C21: monotone by construction.                                          *)
(***************************************************************************)
\* C21: for every percentile map the extraction can return (keys in any
\* order, values not necessarily increasing with the key), the CDF that
\* _generate_continuous_cdf produces is non-decreasing.
C21_MonotoneForEveryMap ==
    FirstRunDone => NonDecreasing(cdfs[1])

(***************************************************************************)
(* C22: anchor injection.                                                  *)
(***************************************************************************)
\* The table of lines 209-234 as (percentile, value) pairs, and the stated
\* pairs as the snapping step of lines 216-221 leaves them.
TablePairs == {<<R(k), percentile_values[k]>> : k \in DOMAIN percentile_values}
SnappedPairs == {<<R(p), adjusted_values[p]>> : p \in DOMAIN adjusted_values}
\* A stated pair that a closed bound replaces by its forced entry.
ForcedKey(p) ==
    \/ p = 100 /\ ~question_details.open_upper_bound
    \/ p = 0 /\ ~question_details.open_lower_bound
StatedPairsKept ==
    \A pair \in SnappedPairs :
        (\A p \in DOMAIN extracted : R(p) = pair[1] => ~ForcedKey(p)) =>
            pair \in TablePairs

\* C22: with an open upper bound and the maximum stated percentile's value
\* below upper_bound the table gains an entry at percentile exactly
\* 100 - 0.5 * (100 - max_percentile) mapped to upper_bound and keeps every
\* stated pair; with a closed upper bound percentile 100 maps to upper_bound.
\* At the lower edge the anchor is at exactly 0.5 * min_percentile mapped to
\* lower_bound when open, and percentile 0 maps to lower_bound when closed.
C22_AnchorsAtExactHalfway ==
    FirstRunDone =>
        LET q == question_details
            percentile_max == SetMax(DOMAIN extracted)
            percentile_min == SetMin(DOMAIN extracted)
        IN  /\ (q.open_upper_bound /\ RLt(extracted[percentile_max], q.range_max)) =>
                  /\ <<Frac(100 + percentile_max, 2), q.range_max>> \in TablePairs
                  /\ StatedPairsKept
            /\ ~q.open_upper_bound =>
                  100 \in DOMAIN percentile_values /\ percentile_values[100] = q.range_max
            /\ (q.open_lower_bound /\ RLt(q.range_min, extracted[percentile_min])) =>
                  /\ <<Frac(percentile_min, 2), q.range_min>> \in TablePairs
                  /\ StatedPairsKept
            /\ ~q.open_lower_bound =>
                  0 \in DOMAIN percentile_values /\ percentile_values[0] = q.range_min

(***************************************************************************)
(* C23: boundary snapping.                                                 *)
(***************************************************************************)
StatedValueMoved(p) == adjusted_values[p] /= extracted[p]
WithinBuffer(value, bound) ==
    RLe(RAbs(RSub(value, bound)), Buffer(question_details))
LowTarget == RAdd(question_details.range_min, Buffer(question_details))
HighTarget == RSub(question_details.range_max, Buffer(question_details))

\* C23 as stated: a stated value is changed by the snapping step only if it
\* lies within buffer of a closed bound, where it becomes lower_bound + buffer
\* or upper_bound - buffer; every other stated value is left unchanged.
C23_SnapsOnlyWithinBuffer ==
    FirstRunDone =>
        \A p \in DOMAIN extracted :
            LET near_low == /\ ~question_details.open_lower_bound
                            /\ WithinBuffer(extracted[p], question_details.range_min)
                near_high == /\ ~question_details.open_upper_bound
                             /\ WithinBuffer(extracted[p], question_details.range_max)
            IN  /\ near_low => adjusted_values[p] = LowTarget
                /\ near_high => adjusted_values[p] = HighTarget
                /\ StatedValueMoved(p) => near_low \/ near_high

\* C23 (amended): a stated value is changed by the snapping step only if it
\* is at most lower_bound + buffer with a closed lower bound, where it becomes
\* lower_bound + buffer, or at least upper_bound - buffer with a closed upper
\* bound, where it becomes upper_bound - buffer; values beyond a closed bound
\* are moved as well, and every other stated value keeps its value.
C23_SnapsAtOrBeyondClosedBound ==
    FirstRunDone =>
        /\ DOMAIN adjusted_values = DOMAIN extracted
        /\ \A p \in DOMAIN extracted :
            LET low == /\ ~question_details.open_lower_bound
                       /\ RLe(extracted[p], LowTarget)
                high == /\ ~question_details.open_upper_bound
                        /\ RLe(HighTarget, extracted[p])
            IN  /\ low => adjusted_values[p] = LowTarget
                /\ high => adjusted_values[p] = HighTarget
                /\ StatedValueMoved(p) => low \/ high

\* A value stated below a closed lower bound, further than buffer away from
\* it, has been moved to lower_bound + buffer, while a value stated beyond
\* an open upper bound has kept its value.
C23_Witness ==
    /\ FirstRunDone
    /\ ~question_details.open_lower_bound
    /\ question_details.open_upper_bound
    /\ \E p, r \in DOMAIN extracted :
          /\ RLt(extracted[p], RSub(question_details.range_min, Buffer(question_details)))
          /\ adjusted_values[p] = LowTarget
          /\ RLt(question_details.range_max, extracted[r])
          /\ ~StatedValueMoved(r)

(***************************************************************************)
(* C24: keys of the percentile map.                                        *)
(***************************************************************************)
\* C24: every key of the map extract_percentiles returns is an integer in
\* [0, 100], whatever the text (first numbers above 100, fractional first
\* numbers and lines that state no percentile included); the keys of a dict
\* are unique.
C24_KeysArePercentiles ==
    (PercentilesExtracted /\ extraction.result.status = "returned") =>
        \A key \in DOMAIN extraction.result.value : key \in 0..100

(***************************************************************************)
(* C25: synthesis as a pure transform.                                     *)
(***************************************************************************)
\* C25: _generate_continuous_cdf leaves the percentile map passed to it
\* unchanged (no snapped values, no added anchor keys), so the dict that line
\* 176 formats as "Extracted Percentile values" after the call is exactly the
\* map extract_percentiles returned for the run.
C25_SynthesisLeavesMapUnchanged ==
    FirstRunDone => percentile_values = extracted

(***************************************************************************)
(* C26: the order of the phases of one forecast.                           *)
(***************************************************************************)
RunLaunched(q, i) == run_task[q][i] # "unborn"
RunIssued(q, i) == run_task[q][i] \notin {"unborn", "created"}
ForecastDone(q) == forecast[q].status = "returned"
ForecastFailed(q) == forecast[q].status = "raised"

\* Research has returned before a run exists, and the runs are created
\* together and take their first steps together.
ResearchBeforeRuns(q) ==
    /\ (\E i \in Runs : RunLaunched(q, i)) =>
           /\ summary_report[q] # "none"
           /\ question_task[q] # "researching"
           /\ call_pc[<<q, 0>>] = "idle"
           /\ research_step[q] = 0
    /\ \A i, j \in Runs :
           /\ RunLaunched(q, i) <=> RunLaunched(q, j)
           /\ RunIssued(q, i) <=> RunIssued(q, j)
    /\ \A i \in Runs : call_pc[<<q, i>>] # "idle" => RunIssued(q, i)

\* The aggregate and the comment exist only once every run has returned, and
\* a failed run leaves the forecast failed or still waiting, never done.
AggregationAfterRuns(q) ==
    /\ ForecastDone(q) =>
           /\ \A i \in Runs : run_outcome[q][i].status = "returned"
           /\ Len(forecast[q].value) = num_runs_per_question
           /\ final_comment[q] # None
    /\ final_comment[q] # None => ForecastDone(q)
    /\ (\E i \in Runs : run_outcome[q][i].status = "raised") => ~ForecastDone(q)
    /\ ForecastFailed(q) =>
           /\ \E i \in Runs : run_outcome[q][i] = forecast[q]
           /\ final_comment[q] = None

\* Research is called once and every run's call is issued once: a report,
\* once returned, is not replaced, research is not entered again, and a run
\* that was issued or has ended is never issued again.
CalledOnce(q) ==
    /\ summary_report[q] # "none" =>
           /\ summary_report'[q] = summary_report[q]
           /\ question_task'[q] # "researching"
    /\ \A i \in Runs :
           /\ RunIssued(q, i) => RunIssued(q, i)'
           /\ run_task[q][i] \in {"done", "cancelled"} =>
                  /\ run_task'[q][i] = run_task[q][i]
                  /\ call_pc'[<<q, i>>] = "idle"
           /\ (call_pc[<<q, i>>] = "idle" /\ call_pc'[<<q, i>>] # "idle") =>
                  ~RunIssued(q, i)

\* C26: in every forecast the research collaborator is invoked once and has
\* returned before any of the N run calls is issued; exactly N run calls are
\* issued, all launched before any of them is awaited; aggregation starts
\* only after all N runs have returned; forecast returns only after
\* aggregation, and a failed run ends the forecast in failure instead.
C26_FacadeOrdering ==
    /\ [](\A q \in QuestionIds : ResearchBeforeRuns(q) /\ AggregationAfterRuns(q))
    /\ [][\A q \in QuestionIds : CalledOnce(q)]_vars

\* With the five-step research provider, one question's forecast has come
\* back with the aggregate of all its runs while the other question's
\* forecast has failed on a run.
C26_Witness ==
    /\ research_provider = "LLMResearchProvider"
    /\ \E q, p \in QuestionIds :
          /\ ForecastDone(q)
          /\ summary_report[q] = "report"
          /\ \A i \in Runs : run_outcome[q][i].status = "returned"
          /\ ForecastFailed(p)

(***************************************************************************)
(* C27: the median of monotone CDFs.                                       *)
(***************************************************************************)
NumericAggregated == kind = "numeric" /\ aggregated.status = "returned"
RunsNonDecreasing == \A r \in 1..Len(run_results) : NonDecreasing(run_results[r])

\* C27: if every one of the N per-run CDFs is non-decreasing, the aggregated
\* CDF, the elementwise median at each grid index, is non-decreasing as
\* well, for N odd or even and whatever the order of the runs.
C27_MedianKeepsMonotone ==
    (NumericAggregated /\ RunsNonDecreasing) =>
        /\ NonDecreasing(aggregated.value)
        /\ NonDecreasing(aggregated_permuted.value)

\* An even number of non-decreasing CDFs that cross (each is below the other
\* at some grid index) has been aggregated into a CDF that is neither of them.
C27_Witness ==
    /\ NumericAggregated /\ RunsNonDecreasing
    /\ Len(run_results) = 2
    /\ \E i, j \in 1..Len(run_results[1]) :
          /\ RLt(run_results[1][i], run_results[2][i])
          /\ RLt(run_results[2][j], run_results[1][j])
    /\ aggregated.value \notin {run_results[1], run_results[2]}
    /\ NonDecreasing(aggregated.value)

(***************************************************************************)
(* C28: the local client's retry loop.                                     *)
(***************************************************************************)
Requests(c) == Len(responses[c])
CallOutcome(c) == run_outcome[c[1]][c[2]]
FailedRequests(c) == {k \in 1..Requests(c) : responses[c][k].response = "error"}

\* What the requests made so far say about where the call stands.
RetryLoopState(c) ==
    /\ Requests(c) <= local_llm_max_retries
    /\ call_pc[c] = "idle" /\ CallOutcome(c) = NoValue => Requests(c) = 0
    /\ call_pc[c] = "waiting" => Requests(c) = 0
    /\ call_pc[c] = "calling" =>
           /\ attempt[c] = Requests(c) + 1
           /\ FailedRequests(c) = 1..Requests(c)
           /\ CallOutcome(c) = NoValue
    /\ CallOutcome(c).status = "returned" =>
           /\ Requests(c) >= 1
           /\ FailedRequests(c) = 1..(Requests(c) - 1)
           /\ CallOutcome(c).value = responses[c][Requests(c)]
           /\ CallOutcome(c).value = Answer(c, Requests(c))
    /\ CallOutcome(c).status = "raised" =>
           /\ Requests(c) = local_llm_max_retries
           /\ FailedRequests(c) = 1..local_llm_max_retries

\* A request is made only by a call inside the gate; a call that goes on to
\* its next request keeps its permit (the gate is not touched), and a call
\* that has returned or raised makes no further request.
RetryLoopStep(c) ==
    /\ responses'[c] # responses[c] =>
           /\ call_pc[c] = "calling"
           /\ Requests(c)' = Requests(c) + 1
    /\ (responses'[c] # responses[c] /\ CallOutcome(c)' = NoValue) =>
           /\ call_pc'[c] = "calling"
           /\ UNCHANGED <<semaphore_value, semaphore_waiters, call_pc>>
    /\ CallOutcome(c) # NoValue =>
           /\ responses'[c] = responses[c]
           /\ CallOutcome(c)' = CallOutcome(c)
           /\ call_pc'[c] = "idle"

\* C28: LocalLLMClient.call makes at most local_llm_max_retries requests, one
\* after another while holding a single gate permit; it returns the answer
\* of the first successful request without making further requests, and
\* raises only after every one of the local_llm_max_retries requests failed.
C28_LocalRetryLoop ==
    /\ [](\A c \in RunCalls : RetryLoopState(c))
    /\ [](semaphore_value + Cardinality({c \in Calls : call_pc[c] = "calling"})
            = concurrent_requests_limit)
    /\ [][\A c \in RunCalls : RetryLoopStep(c)]_vars

\* One call has returned the answer of its second request after a failed
\* first one, another has raised after local_llm_max_retries failed requests,
\* and a third is on its last request, still inside the gate.
C28_Witness ==
    \E c, d, e \in RunCalls :
        /\ CallOutcome(c).status = "returned" /\ Requests(c) = 2
        /\ CallOutcome(d).status = "raised"
        /\ call_pc[e] = "calling" /\ attempt[e] = local_llm_max_retries

(***************************************************************************)
(* C29: the gate cannot deadlock.                                          *)
(***************************************************************************)
Waiting(c) == call_pc[c] = "waiting"
Admitted(c) == call_pc[c] = "calling"
BatchFinished == batch \in {"returned", "raised", "closed"}
PermitsOut == Cardinality({c \in DOMAIN call_pc : Admitted(c)})

\* Every call in the gate holds exactly one permit and every waiting call
\* stands once in the queue; nobody waits while a permit is free.
GateConsistent ==
    /\ semaphore_value >= 0
    /\ {semaphore_waiters[k] : k \in 1..Len(semaphore_waiters)} = {c \in DOMAIN call_pc : Waiting(c)}
    /\ \A j, k \in 1..Len(semaphore_waiters) :
           semaphore_waiters[j] = semaphore_waiters[k] => j = k
    /\ semaphore_waiters # <<>> => semaphore_value = 0
\* Permits are neither lost nor made: free permits plus calls in the gate
\* stay what concurrent_limit set them to.
PermitsConserved == (semaphore_value + PermitsOut)' = semaphore_value + PermitsOut

\* A run is cancelled while waiting only when asyncio.run closes the loop
\* after forecast_questions has finished, its forecast having failed before.
CancelledAtShutdown(c) ==
    /\ c[2] > 0
    /\ batch = "closed"
    /\ run_task[c[1]][c[2]] = "cancelled"
    /\ forecast[c[1]].status = "raised"

\* C29 as stated: no task takes a permit while it holds one, so for every
\* limit from 1 up, every model call waiting on the gate is eventually
\* admitted and forecast_questions eventually finishes, provided every
\* admitted call eventually returns or fails.
C29_EveryWaitingCallAdmitted ==
    /\ []GateConsistent
    /\ [][PermitsConserved]_vars
    /\ \A c \in LiveCalls : Waiting(c) ~> Admitted(c)
    /\ <>BatchFinished

\* C29 (amended): as stated, except that a run call whose forecast has
\* already failed on a sibling run may still be waiting when
\* forecast_questions finishes; such a call is cancelled in the queue when
\* the loop is closed.  Every other waiting call, every research call among
\* them, is eventually admitted.
C29_GateCannotDeadlock ==
    /\ []GateConsistent
    /\ [][PermitsConserved]_vars
    /\ \A c \in LiveCalls : Waiting(c) ~> (Admitted(c) \/ CancelledAtShutdown(c))
    /\ \A c \in LiveCalls :
          (Waiting(c) /\ forecast[c[1]].status # "raised") ~>
              (Admitted(c) \/ forecast[c[1]].status = "raised")
    /\ <>BatchFinished

\* With a limit of one permit, a research call waits behind a run of the
\* other question that holds the permit, and that run's sibling waits too.
C29_Witness ==
    /\ semaphore_value = 0 /\ PermitsOut = 1
    /\ \E c, d, e \in LiveCalls :
          /\ c[2] = 0 /\ Waiting(c)
          /\ d[2] > 0 /\ Admitted(d) /\ d[1] # c[1]
          /\ e[2] > 0 /\ Waiting(e) /\ e[1] = d[1]

(***************************************************************************)
(* C30: what is sent to Metaculus, and when.                               *)
(***************************************************************************)
PostCalled(q, name) == \E k \in DOMAIN post_calls[q] : post_calls[q][k] = name
\* The question is skipped as already forecast.
AlreadyForecast(q) ==
    skip_previously_forecasted_questions /\ my_forecasts[q] = Returned(TRUE)
\* No research call, no model call and no forecast were made for q.
Untouched(q) ==
    /\ research_step[q] = 0 /\ summary_report[q] = "none"
    /\ \A i \in Runs : run_task[q][i] = "unborn" /\ run_outcome[q][i] = NoValue
    /\ \A i \in 0..num_runs_per_question :
          call_pc[<<q, i>>] = "idle" /\ attempt[<<q, i>>] = 0
    /\ forecast[q] = NoValue

\* C30: post_prediction and post_comment are called for a question only
\* when submit_prediction is set, the question was not skipped as already
\* forecast and its forecast returned; a question skipped as already
\* forecast gets no research call, no model call and no post; and
\* post_comment is called only after post_prediction returned.
C30_PostsOnlyAfterForecast ==
    \A q \in QuestionIds :
        /\ post_calls[q] # <<>> =>
              /\ submit_prediction
              /\ ~AlreadyForecast(q)
              /\ forecast[q].status = "returned"
              /\ post_calls[q][1] = "post_prediction"
        /\ AlreadyForecast(q) =>
              Untouched(q) /\ post_calls[q] = <<>> /\ posted[q] = "nothing"
        /\ PostCalled(q, "post_comment") =>
              /\ post_calls[q] = <<"post_prediction", "post_comment">>
              /\ posted[q] \in {"prediction", "prediction and comment"}

\* One question was skipped as already forecast and the other's prediction
\* was accepted while its comment was refused.
C30_Witness ==
    \E p, q \in QuestionIds :
        /\ AlreadyForecast(p) /\ forecast_summaries[p] = Returned("skipped")
        /\ PostCalled(q, "post_comment") /\ posted[q] = "prediction"
        /\ batch = "raised"

====
